---- MODULE Spec2Model ----
(***************************************************************************)
(* Model of the nba-hate-tracker ingestion-to-aggregation pipeline:        *)
(*   - pipeline/batch.py          state file, response parser, batch API   *)
(*   - scripts/submit_batches.py  resumable submission                     *)
(*   - scripts/collect_results.py polling, download, join                  *)
(*   - pipeline/arctic_shift.py   paginated archive client                 *)
(* Each component has its own specification over its own variables; the    *)
(* variables of the other components are held at their idle values.        *)
(***************************************************************************)
EXTENDS Integers, Sequences, FiniteSets, TLC

VARIABLES
    \* ---- batch orchestrator (submit_batches.py, collect_results.py) ----
    files,        \* numbers of the prepared request files batch_NNN.jsonl
    fs,           \* the files of the batches directory, by path
    svcJobs,      \* batches created at the classification service, by id
    state,        \* the running process's in-memory state dict
    pc,           \* position of the running process ("idle": none runs)
    todo,         \* the list the current loop iterates over
    result,       \* submit_batch's return value, not yet in the state dict
    runs,         \* runs of submit_batches started so far
    runsDone,     \* runs of submit_batches that returned normally
    clean,        \* no interruption, failure or batch limit so far
    lastCall,     \* the latest service call and the entry it was made for
    \* ---- poll_until_complete (collect_results.py) ----
    clock,        \* time.time() - start_time
    poll_interval,
    max_wait,
    no_wait,      \* --no-wait: one pass, no loop
    ret,          \* poll_until_complete's return value
    failed,       \* entries whose download failed in the current pass
    failedBefore, \* entries whose download failed in an earlier pass
    sleptUntil,   \* the clock at the end of the latest sleep
    \* ---- save_state / load_state (pipeline/batch.py) ----
    committed,    \* the file at state_path when save_state was called
    saving,       \* the state dict save_state was called with
    loaded,       \* load_state's return value
    savedState,   \* the state dict of the latest completed save_state
    initDoc,      \* the dict the state file held at the start, if any
    temp_path,    \* save_state's temporary file, while it is being written
    \* ---- parse_response (pipeline/batch.py) ----
    text,         \* the model's response text, as tokens
    body,         \* the token between the fences, if any
    parsed,       \* what parse_response did: a return value or an exception
    \* ---- build_sentiment_dataframe (collect_results.py) ----
    results_files, \* the batch_NNN_results.jsonl files, sorted, as their lines
    comments,     \* the identifiers of the Filtered Records
    built,        \* what build_sentiment_dataframe did
    \* ---- ArcticShiftClient._fetch_paginated (pipeline/arctic_shift.py) ----
    archive,      \* created_utc of the archive's records, ascending
    inclusive,    \* whether the archive takes after/before as inclusive
    page_size,
    delay,
    after,
    before,
    current_after,
    requests,     \* the page requests sent: the cursor and the page's span
    yielded,      \* the records the generator has yielded
    headers,      \* the response headers of the latest page
    now,          \* int(time.time()) as _check_rate_limit last read it
    slept,        \* the sleeps taken after the latest page
    fetchPc,      \* position of the generator
    \* ---- CommentPipeline (pipeline/processors.py) ----
    steps,        \* self._steps: the registered (name, function) pairs
    stats,        \* self._stats
    processed,    \* the latest call of process: its argument, the stages it
                  \* ran, the stats before it and its return value
    \* ---- calls of the pure functions ----
    args,         \* the function called and its arguments
    value         \* what the call returned, once it has

orchVars == <<files, fs, svcJobs, state, pc, todo, result, runs,
              runsDone, clean, lastCall>>
pollVars == <<clock, poll_interval, max_wait, no_wait, ret, failed,
              failedBefore, sleptUntil>>

saveHist == <<committed, saving, loaded, savedState, initDoc>>
saveVars == <<saveHist, temp_path>>
parseVars == <<text, body, parsed>>
joinVars == <<results_files, comments, built>>
fetchVars == <<archive, inclusive, page_size, delay, after, before,
               current_after, requests, yielded, headers, now, slept,
               fetchPc>>
pipeVars == <<steps, stats, processed>>
callVars == <<args, value>>
libVars == <<pipeVars, callVars>>
outsideOrch == <<parseVars, joinVars, fetchVars, libVars>>

vars == <<orchVars, pollVars, saveVars, outsideOrch>>

\* ------------------------------------------------------------------ bounds
MaxFiles == 2
MaxRuns == 2
MaxWait == 1
MaxInterval == 2
MaxPassTime == 1
MaxSaves == 2

\* ----------------------------------------------------------------- helpers
Min(a, b) == IF a <= b THEN a ELSE b

RECURSIVE SortedSeq(_)
\* sorted(...) of a set of integers, as an ascending sequence
SortedSeq(S) ==
    IF S = {} THEN <<>>
    ELSE LET m == CHOOSE x \in S : \A y \in S : x <= y
         IN <<m>> \o SortedSeq(S \ {m})

RECURSIVE DecimalDigits(_)
\* the decimal digits of a natural number
DecimalDigits(n) ==
    IF n < 10 THEN <<n>> ELSE Append(DecimalDigits(n \div 10), n % 10)

\* the digits of f"{n:03d}"
Padded3(n) ==
    IF n < 10 THEN <<0, 0, n>>
    ELSE IF n < 100 THEN <<0>> \o DecimalDigits(n) ELSE DecimalDigits(n)

\* the order of two path names that differ in the number only,
\* f"batch_{m:03d}{rest}" before f"batch_{n:03d}{rest}" as strings. Where one
\* number's digits begin the other's, the character after the digits decides:
\* the "." of batch_NNN.jsonl is below every digit (rest_below), the "_" of
\* batch_NNN_results.jsonl is above every digit.
NameBefore(m, n, rest_below) ==
    LET a == Padded3(m)
        b == Padded3(n)
        k == Min(Len(a), Len(b))
    IN \/ \E i \in 1..k : a[i] < b[i] /\ \A j \in 1..(i - 1) : a[j] = b[j]
       \/ /\ \A j \in 1..k : a[j] = b[j]
          /\ IF rest_below THEN Len(a) < Len(b) ELSE Len(a) > Len(b)

RECURSIVE SortedByName(_, _)
\* sorted(...) of the paths of a glob, given by their numbers: paths sort as
\* strings
SortedByName(S, rest_below) ==
    IF S = {} THEN <<>>
    ELSE LET m == CHOOSE x \in S : \A y \in S \ {x} : NameBefore(x, y, rest_below)
         IN <<m>> \o SortedByName(S \ {m}, rest_below)

\* dict.get(key, default)
Get(d, key, default) == IF key \in DOMAIN d THEN d[key] ELSE default

NoFile == [exists |-> FALSE, content |-> <<>>]

NoTok == [t |-> "none"]

\* no dict (None)
NoDict == [none |-> TRUE]

\* ---------------------------------------------------- pipeline/batch.py state
\* A dict is a record of its items with one more field, key_order: the keys
\* in insertion order, the order in which json.dump writes the items.
StateKeys == <<"total_input_tokens", "total_output_tokens",
               "estimated_cost_usd", "batches">>

\* the keys of a dict
Keys(d) == DOMAIN d \ {"key_order"}

init_state ==
    [total_input_tokens |-> 0, total_output_tokens |-> 0,
     estimated_cost_usd |-> 0, batches |-> <<>>, key_order |-> StateKeys]

\* json.dump(state, f): the document as the sequence of chunks written, an
\* opening brace, one chunk per key/value pair in the dict's order, a closing
\* brace.
RECURSIVE DumpPairs(_, _)
DumpPairs(d, keys) ==
    IF keys = <<>> THEN <<>>
    ELSE <<[tok |-> "pair", key |-> Head(keys), val |-> d[Head(keys)]]>>
             \o DumpPairs(d, Tail(keys))

AllKeys == StateKeys \o <<"extra">>

json_dump(d) ==
    <<[tok |-> "{"]>> \o DumpPairs(d, d.key_order) \o <<[tok |-> "}"]>>

\* json.load(f) succeeds on a complete document only
IsJsonDocument(c) ==
    /\ Len(c) >= 2
    /\ c[1].tok = "{"
    /\ c[Len(c)].tok = "}"
    /\ \A i \in 2..(Len(c) - 1) : c[i].tok = "pair"

\* json.load(f): the dict of the document's pairs, its keys in the order of
\* the document; of a key that occurs twice the last value stays, at the
\* place of the first
json_load(c) ==
    LET pairs == SubSeq(c, 2, Len(c) - 1)
        keys == {pairs[i].key : i \in 1..Len(pairs)}
        first(i) == \A j \in 1..(i - 1) : pairs[j].key # pairs[i].key
    IN IF \A i \in 1..Len(pairs) : first(i)
       THEN \* no key occurs twice
            [k \in keys \cup {"key_order"} |->
                IF k = "key_order" THEN [i \in 1..Len(pairs) |-> pairs[i].key]
                ELSE pairs[CHOOSE i \in 1..Len(pairs) : pairs[i].key = k].val]
       ELSE LET last(k) == CHOOSE i \in 1..Len(pairs) :
                               /\ pairs[i].key = k
                               /\ \A j \in (i + 1)..Len(pairs) :
                                      pairs[j].key # k
                firsts == SelectSeq([i \in 1..Len(pairs) |-> i], first)
            IN [k \in keys \cup {"key_order"} |->
                   IF k = "key_order"
                   THEN [i \in 1..Len(firsts) |-> pairs[firsts[i]].key]
                   ELSE pairs[last(k)].val]

\* d with every key of `keys` it lacks added at the end, in that order
WithKeys(d, keys) ==
    d.key_order \o SelectSeq(keys, LAMBDA k : k \notin DOMAIN d)

FillDefaultsOverwrite(d) ==
    [k \in DOMAIN d \cup DOMAIN init_state |->
        IF k = "key_order" THEN WithKeys(d, init_state.key_order)
        ELSE IF k \in DOMAIN init_state THEN init_state[k] ELSE d[k]]

\* the loop of load_state: add the default of every missing required key, in
\* the order of defaults.items()
FillDefaults(d) ==
    IF DOMAIN init_state \subseteq DOMAIN d
    THEN \* no key is missing
         d
    ELSE [k \in DOMAIN d \cup DOMAIN init_state |->
             IF k = "key_order" THEN WithKeys(d, init_state.key_order)
             ELSE IF k \in DOMAIN d THEN d[k] ELSE init_state[k]]

\* an exception that leaves the function
Raised(exc) == [raised |-> exc]

IsRaised(x) == "raised" \in DOMAIN x

\* load_state: init_state when the file is missing; json.load raises
\* JSONDecodeError on a file that is no complete document
load_state(f) ==
    IF ~f.exists THEN init_state
    ELSE IF ~IsJsonDocument(f.content) THEN Raised("JSONDecodeError")
    ELSE FillDefaults(json_load(f.content))

StatePath == "state.json"
TempPathIsStatePath(k) == StatePath

\* the name NamedTemporaryFile(dir=state_path.parent, suffix=".tmp") picks:
\* a new name at every call, the k-th of the names it can pick
TempPath(k) == "tmp" \o ToString(k) \o ".tmp"

TempPaths == {TempPath(k) : k \in 1..MaxSaves}

\* no temporary file is open
NoPath == ""

SavedFile(st) == [exists |-> TRUE, content |-> json_dump(st)]

\* os.replace(temp_path, state_path)
Replace(f, tmp) ==
    [p \in DOMAIN f |-> IF p = StatePath THEN f[tmp]
                        ELSE IF p = tmp THEN NoFile
                        ELSE f[p]]

\* save_state, start to end: a new temporary file is written, then renamed
\* over the state path
Saved(f, st) == [f EXCEPT ![StatePath] = SavedFile(st)]

\* processed_dir / OUTPUT_FILENAME, the joined dataset
OutputPath == "sentiment.parquet"

\* filtered_dir / FILTERED_FILENAME, the Filtered Records
FilteredPath == "r_nba_player_mentions.jsonl"

\* batches_dir / "failed_requests.jsonl"
FailedPath == "failed_requests.jsonl"

\* responses_dir / f"batch_{batch_num:03d}_results.jsonl"
ResultsPath(n) ==
    "batch_" \o (IF n < 10 THEN "00" ELSE IF n < 100 THEN "0" ELSE "")
             \o ToString(n) \o "_results.jsonl"

Paths ==
    {StatePath, OutputPath, FilteredPath, FailedPath} \cup TempPaths
        \cup {ResultsPath(n) : n \in 1..MaxFiles}

NoFiles == [p \in Paths |-> NoFile]

\* a name no file of the directory has: names differ only in being distinct,
\* so the first free one stands for any
FreshTempPath(f) ==
    TempPath(CHOOSE k \in 1..MaxSaves :
                 /\ ~f[TempPath(k)].exists
                 /\ \A j \in 1..(k - 1) : f[TempPath(j)].exists)

\* ---------------------------------------- pipeline/batch.py parse_response
\* A response text is a sequence of tokens: whitespace, a markdown fence
\* ("```"), the fence's language tag ("json"), the text of one JSON value, or
\* text that is no JSON. JSON values carry their type, as json.loads returns
\* Python values of different types; strings are sequences of characters.
WS == [t |-> "ws"]
FENCE == [t |-> "fence"]
LANG == [t |-> "lang"]
JUNK == [t |-> "junk"]
\* the text of a JSON value with an integer literal of more than 4300 digits
LONGINT == [t |-> "longint"]
JsonTok(v) == [t |-> "json", v |-> v]

JStr(s) == [j |-> "str", s |-> s]
JNum(n) == [j |-> "num", n |-> n]
JBool(b) == [j |-> "bool", b |-> b]
JNull == [j |-> "null"]
\* an integer literal beyond the range of a double and of at most 4300
\* digits, as 10**400
JHuge == [j |-> "huge"]
JArr(a) == [j |-> "arr", a |-> a]
JObj(o) == [j |-> "obj", o |-> o]

POS == <<"p", "o", "s">>
NEG == <<"n", "e", "g">>
NEU == <<"n", "e", "u">>
ERROR == <<"e", "r", "r", "o", "r">>

RECURSIVE lstrip(_)
lstrip(s) == IF s # <<>> /\ Head(s) = WS THEN lstrip(Tail(s)) ELSE s

RECURSIVE rstrip(_)
rstrip(s) ==
    IF s # <<>> /\ s[Len(s)] = WS THEN rstrip(SubSeq(s, 1, Len(s) - 1)) ELSE s

\* str.strip()
strip(s) == rstrip(lstrip(s))

\* str.startswith, str.endswith
StartsWith(s, prefix) ==
    Len(s) >= Len(prefix) /\ SubSeq(s, 1, Len(prefix)) = prefix
EndsWith(s, suffix) ==
    Len(s) >= Len(suffix) /\ SubSeq(s, Len(s) - Len(suffix) + 1, Len(s)) = suffix

\* sub in s, for strings
HasSub(s, sub) ==
    \E i \in 1..(Len(s) - Len(sub) + 1) : SubSeq(s, i, i + Len(sub) - 1) = sub

\* "Handle markdown code blocks"
DropFencePrefix(c) ==
    IF StartsWith(c, <<FENCE, LANG>>) THEN SubSeq(c, 3, Len(c))
    ELSE IF StartsWith(c, <<FENCE>>) THEN SubSeq(c, 2, Len(c))
    ELSE c

DropFenceSuffix(c) ==
    IF EndsWith(c, <<FENCE>>) THEN SubSeq(c, 1, Len(c) - 1) ELSE c

Cleaned(txt) == strip(DropFenceSuffix(DropFencePrefix(strip(txt))))

NoException == "none"

\* json.loads: the value of the text's one JSON value, blanks around it
\* passed over, or JSONDecodeError, or the ValueError of int() on a literal
\* beyond its limit of 4300 digits: the literal is converted when the value
\* it begins is read, before anything after it is looked at
json_loads(c) ==
    LET s == strip(c)
    IN IF s # <<>> /\ s[1].t = "longint"
       THEN [ok |-> FALSE, v |-> JNull, exc |-> "ValueError"]
       ELSE IF Len(s) = 1 /\ s[1].t = "json"
       THEN [ok |-> TRUE, v |-> s[1].v, exc |-> NoException]
       ELSE [ok |-> FALSE, v |-> JNull, exc |-> "JSONDecodeError"]

Return(v) == [outcome |-> "return", value |-> v]
Raise(exc) == [outcome |-> "raise", value |-> exc]

ErrorVariant(txt) == [s |-> ERROR, c |-> 0, p |-> JNull, raw |-> txt]

Digit(ch) ==
    CASE ch = "0" -> 0 [] ch = "1" -> 1 [] ch = "2" -> 2 [] ch = "3" -> 3
      [] ch = "4" -> 4 [] ch = "5" -> 5 [] ch = "6" -> 6 [] ch = "7" -> 7
      [] ch = "8" -> 8 [] ch = "9" -> 9 [] OTHER -> -1

IsDigit(ch) == Digit(ch) >= 0

RECURSIVE DigitsValue(_)
DigitsValue(s) ==
    IF s = <<>> THEN 0
    ELSE 10 * DigitsValue(SubSeq(s, 1, Len(s) - 1)) + Digit(s[Len(s)])

\* the whitespace int() and float() strip from a string, among the characters
\* of code point below 256 that strings are written in: space, tab, line feed,
\* carriage return, form feed, line tabulation (U+000B), next line (U+0085) and
\* no-break space (U+00A0). The separators U+001C to U+001F are not stripped.
WhiteChars == {" ", "\t", "\n", "\r", "\f", "", "", " "}

RECURSIVE StripLeft(_)
StripLeft(s) ==
    IF s # <<>> /\ Head(s) \in WhiteChars THEN StripLeft(Tail(s)) ELSE s

RECURSIVE StripRight(_)
StripRight(s) ==
    IF s # <<>> /\ s[Len(s)] \in WhiteChars
    THEN StripRight(SubSeq(s, 1, Len(s) - 1)) ELSE s

StripChars(s) == StripRight(StripLeft(s))

\* the digits of a numeric literal: one underscore may stand between two
\* digits
DigitRun(s) ==
    /\ s # <<>>
    /\ \A i \in 1..Len(s) :
          \/ IsDigit(s[i])
          \/ /\ s[i] = "_"
             /\ 1 < i /\ i < Len(s)
             /\ IsDigit(s[i - 1]) /\ IsDigit(s[i + 1])

OnlyDigits(s) == SelectSeq(s, IsDigit)

IsNegative(s) == s # <<>> /\ Head(s) = "-"

Unsigned(s) == IF s # <<>> /\ Head(s) \in {"+", "-"} THEN Tail(s) ELSE s

RECURSIVE StripZerosLeft(_)
StripZerosLeft(s) ==
    IF s # <<>> /\ Head(s) = "0" THEN StripZerosLeft(Tail(s)) ELSE s

RECURSIVE StripZerosRight(_)
StripZerosRight(s) ==
    IF s # <<>> /\ s[Len(s)] = "0"
    THEN StripZerosRight(SubSeq(s, 1, Len(s) - 1)) ELSE s

\* int(s) of a string: whether it raises ValueError
IntRaises(s) == ~DigitRun(Unsigned(StripChars(s)))

\* int(s) of a string that is an integer literal
int(s) ==
    LET t == StripChars(s)
    IN (IF IsNegative(t) THEN -1 ELSE 1) * DigitsValue(OnlyDigits(Unsigned(t)))

\* the letters of "inf", "infinity", "nan" and of the exponent, lower-cased
FloatLower(ch) ==
    CASE ch = "I" -> "i" [] ch = "N" -> "n" [] ch = "F" -> "f"
      [] ch = "T" -> "t" [] ch = "Y" -> "y" [] ch = "A" -> "a"
      [] ch = "E" -> "e" [] OTHER -> ch

\* the first position of ch in s, or 0
IndexOf(s, ch) ==
    IF \E i \in 1..Len(s) : s[i] = ch
    THEN CHOOSE i \in 1..Len(s) : s[i] = ch /\ \A j \in 1..(i - 1) : s[j] # ch
    ELSE 0

\* the parts of a floating-point literal: [sign] int [. frac] [e [sign] exp]
FloatParts(s) ==
    LET t == StripChars(s)
        u == [i \in 1..Len(Unsigned(t)) |-> FloatLower(Unsigned(t)[i])]
        e == IndexOf(u, "e")
        mant == IF e = 0 THEN u ELSE SubSeq(u, 1, e - 1)
        dot == IndexOf(mant, ".")
    IN [negative |-> IsNegative(t),
        word |-> u,
        int |-> IF dot = 0 THEN mant ELSE SubSeq(mant, 1, dot - 1),
        frac |-> IF dot = 0 THEN <<>> ELSE SubSeq(mant, dot + 1, Len(mant)),
        has_exp |-> e # 0,
        exp |-> IF e = 0 THEN <<>> ELSE SubSeq(u, e + 1, Len(u))]

INF == <<"i", "n", "f">>
INFINITY == <<"i", "n", "f", "i", "n", "i", "t", "y">>
NAN == <<"n", "a", "n">>

\* whether the parts are those of a literal float() takes
IsLiteral(p) ==
    \/ p.word \in {INF, INFINITY, NAN}
    \/ /\ p.int = <<>> \/ DigitRun(p.int)
       /\ p.frac = <<>> \/ DigitRun(p.frac)
       /\ p.int # <<>> \/ p.frac # <<>>
       /\ p.has_exp => DigitRun(Unsigned(p.exp))

\* whether float(s) takes the string
IsFloatLiteral(s) == IsLiteral(FloatParts(s))

\* digit strings compared as decimal fractions 0.d1d2d3...
FractionDigit(a, i) == IF i <= Len(a) THEN Digit(a[i]) ELSE 0

FractionLess(a, b) ==
    \E i \in 1..(Len(a) + Len(b)) :
        /\ FractionDigit(a, i) < FractionDigit(b, i)
        /\ \A k \in 1..(i - 1) : FractionDigit(a, k) = FractionDigit(b, k)

FractionLeq(a, b) == ~FractionLess(b, a)

\* the digits of 2^1024 - 2^970, the least decimal that rounds to an infinity
\* (0.d1d2... * 10^309), and of 5^1075, those of 2^-1075, the largest decimal
\* that rounds to zero (0.d1d2... * 10^-323)
MaxFloatDigits ==
    <<"1", "7", "9", "7", "6", "9", "3", "1", "3", "4", "8", "6", "2", "3",
      "1", "5", "8", "0", "7", "9", "3", "7", "2", "8", "9", "7", "1", "4",
      "0", "5", "3", "0", "3", "4", "1", "5", "0", "7", "9", "9", "3", "4",
      "1", "3", "2", "7", "1", "0", "0", "3", "7", "8", "2", "6", "9", "3",
      "6", "1", "7", "3", "7", "7", "8", "9", "8", "0", "4", "4", "4", "9",
      "6", "8", "2", "9", "2", "7", "6", "4", "7", "5", "0", "9", "4", "6",
      "6", "4", "9", "0", "1", "7", "9", "7", "7", "5", "8", "7", "2", "0",
      "7", "0", "9", "6", "3", "3", "0", "2", "8", "6", "4", "1", "6", "6",
      "9", "2", "8", "8", "7", "9", "1", "0", "9", "4", "6", "5", "5", "5",
      "5", "4", "7", "8", "5", "1", "9", "4", "0", "4", "0", "2", "6", "3",
      "0", "6", "5", "7", "4", "8", "8", "6", "7", "1", "5", "0", "5", "8",
      "2", "0", "6", "8", "1", "9", "0", "8", "9", "0", "2", "0", "0", "0",
      "7", "0", "8", "3", "8", "3", "6", "7", "6", "2", "7", "3", "8", "5",
      "4", "8", "4", "5", "8", "1", "7", "7", "1", "1", "5", "3", "1", "7",
      "6", "4", "4", "7", "5", "7", "3", "0", "2", "7", "0", "0", "6", "9",
      "8", "5", "5", "5", "7", "1", "3", "6", "6", "9", "5", "9", "6", "2",
      "2", "8", "4", "2", "9", "1", "4", "8", "1", "9", "8", "6", "0", "8",
      "3", "4", "9", "3", "6", "4", "7", "5", "2", "9", "2", "7", "1", "9",
      "0", "7", "4", "1", "6", "8", "4", "4", "4", "3", "6", "5", "5", "1",
      "0", "7", "0", "4", "3", "4", "2", "7", "1", "1", "5", "5", "9", "6",
      "9", "9", "5", "0", "8", "0", "9", "3", "0", "4", "2", "8", "8", "0",
      "1", "7", "7", "9", "0", "4", "1", "7", "4", "4", "9", "7", "7", "9",
      "2">>
MinFloatDigits ==
    <<"2", "4", "7", "0", "3", "2", "8", "2", "2", "9", "2", "0", "6", "2",
      "3", "2", "7", "2", "0", "8", "8", "2", "8", "4", "3", "9", "6", "4",
      "3", "4", "1", "1", "0", "6", "8", "6", "1", "8", "2", "5", "2", "9",
      "9", "0", "1", "3", "0", "7", "1", "6", "2", "3", "8", "2", "2", "1",
      "2", "7", "9", "2", "8", "4", "1", "2", "5", "0", "3", "3", "7", "7",
      "5", "3", "6", "3", "5", "1", "0", "4", "3", "7", "5", "9", "3", "2",
      "6", "4", "9", "9", "1", "8", "1", "8", "0", "8", "1", "7", "9", "9",
      "6", "1", "8", "9", "8", "9", "8", "2", "8", "2", "3", "4", "7", "7",
      "2", "2", "8", "5", "8", "8", "6", "5", "4", "6", "3", "3", "2", "8",
      "3", "5", "5", "1", "7", "7", "9", "6", "9", "8", "9", "8", "1", "9",
      "9", "3", "8", "7", "3", "9", "8", "0", "0", "5", "3", "9", "0", "9",
      "3", "9", "0", "6", "3", "1", "5", "0", "3", "5", "6", "5", "9", "5",
      "1", "5", "5", "7", "0", "2", "2", "6", "3", "9", "2", "2", "9", "0",
      "8", "5", "8", "3", "9", "2", "4", "4", "9", "1", "0", "5", "1", "8",
      "4", "4", "3", "5", "9", "3", "1", "8", "0", "2", "8", "4", "9", "9",
      "3", "6", "5", "3", "6", "1", "5", "2", "5", "0", "0", "3", "1", "9",
      "3", "7", "0", "4", "5", "7", "6", "7", "8", "2", "4", "9", "2", "1",
      "9", "3", "6", "5", "6", "2", "3", "6", "6", "9", "8", "6", "3", "6",
      "5", "8", "4", "8", "0", "7", "5", "7", "0", "0", "1", "5", "8", "5",
      "7", "6", "9", "2", "6", "9", "9", "0", "3", "7", "0", "6", "3", "1",
      "1", "9", "2", "8", "2", "7", "9", "5", "5", "8", "5", "5", "1", "3",
      "3", "2", "9", "2", "7", "8", "3", "4", "3", "3", "8", "4", "0", "9",
      "3", "5", "1", "9", "7", "8", "0", "1", "5", "5", "3", "1", "2", "4",
      "6", "5", "9", "7", "2", "6", "3", "5", "7", "9", "5", "7", "4", "6",
      "2", "2", "7", "6", "6", "4", "6", "5", "2", "7", "2", "8", "2", "7",
      "2", "2", "0", "0", "5", "6", "3", "7", "4", "0", "0", "6", "4", "8",
      "5", "4", "9", "9", "9", "7", "7", "0", "9", "6", "5", "9", "9", "4",
      "7", "0", "4", "5", "4", "0", "2", "0", "8", "2", "8", "1", "6", "6",
      "2", "2", "6", "2", "3", "7", "8", "5", "7", "3", "9", "3", "4", "5",
      "0", "7", "3", "6", "3", "3", "9", "0", "0", "7", "9", "6", "7", "7",
      "6", "1", "9", "3", "0", "5", "7", "7", "5", "0", "6", "7", "4", "0",
      "1", "7", "6", "3", "2", "4", "6", "7", "3", "6", "0", "0", "9", "6",
      "8", "9", "5", "1", "3", "4", "0", "5", "3", "5", "5", "3", "7", "4",
      "5", "8", "5", "1", "6", "6", "6", "1", "1", "3", "4", "2", "2", "3",
      "7", "6", "6", "6", "7", "8", "6", "0", "4", "1", "6", "2", "1", "5",
      "9", "6", "8", "0", "4", "6", "1", "9", "1", "4", "4", "6", "7", "2",
      "9", "1", "8", "4", "0", "3", "0", "0", "5", "3", "0", "0", "5", "7",
      "5", "3", "0", "8", "4", "9", "0", "4", "8", "7", "6", "5", "3", "9",
      "1", "7", "1", "1", "3", "8", "6", "5", "9", "1", "6", "4", "6", "2",
      "3", "9", "5", "2", "4", "9", "1", "2", "6", "2", "3", "6", "5", "3",
      "8", "8", "1", "8", "7", "9", "6", "3", "6", "2", "3", "9", "3", "7",
      "3", "2", "8", "0", "4", "2", "3", "8", "9", "1", "0", "1", "8", "6",
      "7", "2", "3", "4", "8", "4", "9", "7", "6", "6", "8", "2", "3", "5",
      "0", "8", "9", "8", "6", "3", "3", "8", "8", "5", "8", "7", "9", "2",
      "5", "6", "2", "8", "3", "0", "2", "7", "5", "5", "9", "9", "5", "6",
      "5", "7", "5", "2", "4", "4", "5", "5", "5", "0", "7", "2", "5", "5",
      "1", "8", "9", "3", "1", "3", "6", "9", "0", "8", "3", "6", "2", "5",
      "4", "7", "7", "9", "1", "8", "6", "9", "4", "8", "6", "6", "7", "9",
      "9", "4", "9", "6", "8", "3", "2", "4", "0", "4", "9", "7", "0", "5",
      "8", "2", "1", "0", "2", "8", "5", "1", "3", "1", "8", "5", "4", "5",
      "1", "3", "9", "6", "2", "1", "3", "8", "3", "7", "7", "2", "2", "8",
      "2", "6", "1", "4", "5", "4", "3", "7", "6", "9", "3", "4", "1", "2",
      "5", "3", "2", "0", "9", "8", "5", "9", "1", "3", "2", "7", "6", "6",
      "7", "2", "3", "6", "3", "2", "8", "1", "2", "5">>

RECURSIVE Pow10(_)
Pow10(n) == IF n = 0 THEN 1 ELSE 10 * Pow10(n - 1)

FloatInf(negative) == [float |-> IF negative THEN "-inf" ELSE "inf"]
FloatNaN == [float |-> "nan"]

\* the digits of the mantissa without leading zeros, and the exponent
FloatDigits(p) == StripZerosLeft(OnlyDigits(p.int) \o OnlyDigits(p.frac))

ExponentOf(negative, digits) ==
    (IF negative THEN -1 ELSE 1)
        * (IF Len(digits) > 9 THEN 999999999 ELSE DigitsValue(digits))

FloatExponent(p) ==
    ExponentOf(IsNegative(p.exp), StripZerosLeft(OnlyDigits(Unsigned(p.exp))))

\* the double nearest to 0.M * 10^mag (M without trailing zeros), in
\* hundredths: an integer when the value is a whole number of hundredths of
\* at most 9 digits, else the decimal digits M * 10^(mag - Len(M)), or an
\* infinity, or zero
FloatDecimal(negative, M, mag) ==
    IF M = <<>> THEN 0
    ELSE IF mag > 309 \/ (mag = 309 /\ ~FractionLess(M, MaxFloatDigits))
    THEN FloatInf(negative)
    ELSE IF mag < -323 \/ (mag = -323 /\ FractionLeq(M, MinFloatDigits))
    THEN 0
    ELSE IF mag - Len(M) + 2 >= 0 /\ mag + 2 <= 9
    THEN (IF negative THEN -1 ELSE 1) * DigitsValue(M)
             * Pow10(mag - Len(M) + 2)
    ELSE [float |-> "decimal", negative |-> negative, digits |-> M,
          exp10 |-> mag - Len(M)]

FloatOfParts(p) ==
    IF p.word \in {INF, INFINITY} THEN FloatInf(p.negative)
    ELSE IF p.word = NAN THEN FloatNaN
    ELSE FloatDecimal(p.negative, StripZerosRight(FloatDigits(p)),
                      FloatExponent(p) - Len(OnlyDigits(p.frac))
                          + Len(FloatDigits(p)))

\* float(s) of a floating-point literal. (An exponent of more than 9 digits
\* overflows or underflows as 999999999 does.)
FloatOfString(s) == FloatOfParts(FloatParts(s))

\* float(x): the exception it raises, if any. A JSON number is a Python int
\* or float, true and false are bool, a string is parsed, null, arrays and
\* objects are a TypeError; an int beyond the range of a double ("huge") is
\* an OverflowError.
FloatRaises(x) ==
    CASE x.j \in {"num", "bool"} -> NoException
      [] x.j = "huge" -> "OverflowError"
      [] x.j = "str" -> IF IsFloatLiteral(x.s) THEN NoException ELSE "ValueError"
      [] OTHER -> "TypeError"

\* float(x), in hundredths
Float(x) ==
    CASE x.j = "num" -> x.n
      [] x.j = "bool" -> IF x.b THEN 100 ELSE 0
      [] OTHER -> FloatOfString(x.s)

\* except (json.JSONDecodeError, ValueError, TypeError)
ParseCaught == {"JSONDecodeError", "ValueError", "TypeError"}

\* "Validate required fields" to the end of the try block
Validate(res, txt) ==
    CASE res.j \in {"num", "huge", "bool", "null"} ->
             \* "s" not in result: TypeError, caught
             Return(ErrorVariant(txt))
      [] res.j = "str" ->
             IF ~HasSub(res.s, <<"s">>) THEN Return(ErrorVariant(txt))
             ELSE \* result.get: 'str' object has no attribute 'get'
                  Raise("AttributeError")
      [] res.j = "arr" ->
             IF ~\E i \in 1..Len(res.a) : res.a[i] = JStr(<<"s">>)
             THEN Return(ErrorVariant(txt))
             ELSE Raise("AttributeError")
      [] OTHER ->
             IF "s" \notin DOMAIN res.o THEN Return(ErrorVariant(txt))
             ELSE IF res.o["s"] \notin {JStr(POS), JStr(NEG), JStr(NEU)}
             THEN Return(ErrorVariant(txt))
             ELSE IF FloatRaises(Get(res.o, "c", JNum(0))) \in ParseCaught
             THEN Return(ErrorVariant(txt))
             ELSE IF FloatRaises(Get(res.o, "c", JNum(0))) # NoException
             THEN Raise(FloatRaises(Get(res.o, "c", JNum(0))))
             ELSE Return([s |-> res.o["s"].s,
                          c |-> Float(Get(res.o, "c", JNum(0))),
                          p |-> Get(res.o, "p", JNull)])

parse_response(txt) ==
    IF txt = <<>> \/ strip(txt) = <<>> THEN Return(ErrorVariant(txt))
    ELSE LET r == json_loads(Cleaned(txt))
         IN IF ~r.ok
            THEN IF r.exc \in ParseCaught THEN Return(ErrorVariant(txt))
                 ELSE Raise(r.exc)
            ELSE IF r.v.j = "arr"
            THEN IF Len(r.v.a) = 0 THEN Return(ErrorVariant(txt))
                 ELSE Validate(r.v.a[1], txt)
            ELSE Validate(r.v, txt)


\* ------------------------- scripts/collect_results.py build_sentiment_dataframe
MaxIds == 2
MaxResultFiles == 2

\* calculate_cost, in units of 1e-7 USD (0.50 and 2.50 USD per million tokens)
calculate_cost(input_tokens, output_tokens) ==
    5 * input_tokens + 25 * output_tokens

\* the lines of a results file, as download_results wrote them
Contents ==
    {<<JsonTok(JObj([s |-> JStr(NEG), c |-> JNum(90), p |-> JNull]))>>,
     <<JUNK>>,
     <<JsonTok(JStr(POS))>>}

Succeeded(id, content) ==
    [custom_id |-> id, result_type |-> "succeeded", content |-> content,
     input_tokens |-> 2, output_tokens |-> 1]

NotSucceeded(id, type) ==
    [custom_id |-> id, result_type |-> type, error |-> type]

Blank == [blank |-> TRUE]

\* a line cut off in the middle, and a line holding a dict that is no result
Truncated == [truncated |-> TRUE]
NotAResult == [custom_id |-> 0]

Results ==
    {Succeeded(id, c) : id \in 1..MaxIds, c \in Contents}
    \cup {NotSucceeded(id, t) : id \in 1..MaxIds, t \in {"errored", "expired"}}

\* a results file holds the results of one batch, here of one request, with
\* or without a blank line
ResultsFiles ==
    {<<r>> : r \in Results} \cup {<<r, Blank>> : r \in Results}
    \cup {<<Blank, r>> : r \in Results}
    \cup {<<Truncated>>, <<NotAResult>>}

SeqsUpTo(S, n) == UNION {[1..k -> S] : k \in 0..n}

RECURSIVE Flatten(_)
Flatten(fls) == IF fls = <<>> THEN <<>> ELSE Head(fls) \o Flatten(Tail(fls))

LoadStart ==
    [all_results |-> <<>>, failed_requests |-> <<>>,
     total_input_tokens |-> 0, total_output_tokens |-> 0,
     exc |-> NoException]

\* the row a succeeded result contributes to all_results
ResultRow(res, p) ==
    [id |-> res.custom_id, sentiment |-> p.s, confidence |-> p.c,
     sentiment_player |-> p.p, input_tokens |-> res.input_tokens,
     output_tokens |-> res.output_tokens]

\* a succeeded result: response is what parse_response gave for its content
LoadSucceeded(line, response, acc) ==
    IF response.outcome = "raise" THEN [acc EXCEPT !.exc = response.value]
    ELSE [acc EXCEPT
             !.all_results = Append(@, ResultRow(line, response.value)),
             !.total_input_tokens = @ + line.input_tokens,
             !.total_output_tokens = @ + line.output_tokens]

\* "Load all results", one line: a blank line is skipped, json.loads and
\* result["result_type"] may raise, a succeeded result is parsed and counted,
\* any other goes to the failures
LoadLine(line, acc) ==
    IF line = Blank THEN acc
    ELSE IF line = Truncated
    THEN \* json.loads(line)
         [acc EXCEPT !.exc = "JSONDecodeError"]
    ELSE IF "result_type" \notin DOMAIN line
    THEN \* result["result_type"]
         [acc EXCEPT !.exc = "KeyError"]
    ELSE IF line.result_type = "succeeded"
    THEN LoadSucceeded(line, parse_response(line.content), acc)
    ELSE [acc EXCEPT !.failed_requests = Append(@, line)]

\* "Load all results": the loop over the lines of the results files; an
\* exception ends it
RECURSIVE LoadResults(_, _)
LoadResults(lines, acc) ==
    IF lines = <<>> \/ acc.exc # NoException THEN acc
    ELSE LoadResults(Tail(lines), LoadLine(Head(lines), acc))

\* comments_df.join(results_df.lazy(), on="id", how="inner"), renamed: one row
\* for every pair of a comment and a result of the same id
RECURSIVE InnerJoin(_, _)
InnerJoin(ids, all_results) ==
    IF all_results = <<>> THEN <<>>
    ELSE LET r == Head(all_results)
         IN (IF r.id \in ids
             THEN <<[comment_id |-> r.id, sentiment |-> r.sentiment,
                     confidence |-> r.confidence,
                     sentiment_player |-> r.sentiment_player,
                     input_tokens |-> r.input_tokens,
                     output_tokens |-> r.output_tokens]>>
             ELSE <<>>) \o InnerJoin(ids, Tail(all_results))

\* "Validate join didn't drop rows": the count the warning reports, 0 when
\* no warning is logged
Dropped(results_count, joined_count) ==
    IF joined_count < results_count THEN results_count - joined_count ELSE 0

\* "Update state with token totals" to the return: acc is what the loading
\* loop left
JoinLoaded(acc, joined_df) ==
    [result |->
         IF acc.all_results = <<>>
         THEN \* pl.DataFrame([]) has no column "id" to join on
              Raise("ColumnNotFoundError")
         ELSE Return([joined_df |-> joined_df,
                      failed_requests |-> acc.failed_requests,
                      dropped |-> Dropped(Len(acc.all_results),
                                          Len(joined_df))]),
     totals |->
         [total_input_tokens |-> acc.total_input_tokens,
          total_output_tokens |-> acc.total_output_tokens,
          estimated_cost_usd |->
              calculate_cost(acc.total_input_tokens,
                             acc.total_output_tokens)]]

BuildLoaded(acc, ids) ==
    IF acc.exc # NoException
    THEN [result |-> Raise(acc.exc), totals |-> NoDict]
    ELSE JoinLoaded(acc, InnerJoin(ids, acc.all_results))

\* build_sentiment_dataframe on the results files (each as its lines) and
\* the identifiers of the filtered comments: what it returns or raises, and
\* the totals it sets in the state dict before the join, if it gets there
BuildFrame(rfiles, ids) ==
    IF rfiles = <<>>
    THEN [result |-> Raise("FileNotFoundError"), totals |-> NoDict]
    ELSE BuildLoaded(LoadResults(Flatten(rfiles), LoadStart), ids)

\* "Update state with token totals"
WithTotals(st, totals) ==
    IF totals = NoDict THEN st
    ELSE [k \in DOMAIN st \cup DOMAIN totals |->
             IF k = "key_order"
             THEN WithKeys(st, <<"total_input_tokens", "total_output_tokens",
                                 "estimated_cost_usd">>)
             ELSE IF k \in DOMAIN totals THEN totals[k] ELSE st[k]]

\* the response of the service to a request it answers
ServiceContent ==
    <<JsonTok(JObj([s |-> JStr(NEG), c |-> JNum(90), p |-> JNull]))>>

\* the requests the service answers with an error
FailingRequests == {2}


\* ------------------------------------------------ scripts/submit_batches.py
FileName(n) == [stem |-> "batch", num |-> n, ext |-> "jsonl"]

extract_batch_num(filename) == filename.num

discover_batch_files(request_files) ==
    LET nums == SortedByName(request_files, TRUE)
    IN [i \in 1..Len(nums) |-> FileName(nums[i])]

is_batch_submittedById(st, filename) ==
    \E i \in 1..Len(Get(st, "batches", <<>>)) :
        st.batches[i].batch_id = filename.num

is_batch_submitted(st, filename) ==
    \E i \in 1..Len(Get(st, "batches", <<>>)) :
        st.batches[i].request_file = filename

PendingFiles(batch_files, st) ==
    SelectSeq(batch_files, LAMBDA f : ~is_batch_submitted(st, f))

\* pending[:max_batches], or pending when max_batches is None (limited = FALSE)
\* (a negative max_batches counts from the end of the list)
Limit(pending, limited, max_batches) ==
    IF ~limited THEN pending
    ELSE IF max_batches >= 0
    THEN SubSeq(pending, 1, Min(max_batches, Len(pending)))
    ELSE SubSeq(pending, 1, Len(pending) + max_batches)

\* the state entry built from submit_batch's result
batch_entry(filename, res) ==
    [batch_num |-> extract_batch_num(filename),
     batch_id |-> res.batch_id,
     request_file |-> filename,
     status |-> res.processing_status,
     results_downloaded |-> FALSE]

NoResult == [batch_id |-> 0, processing_status |-> "none"]
NoCall == [kind |-> "none", batch_id |-> 0, status |-> "none", downloaded |-> FALSE]

\* how often a request file was handed to the service
SubmitCount(filename) ==
    Cardinality({i \in 1..Len(svcJobs) : svcJobs[i].request_file = filename})

ProcessGone ==
    /\ pc' = "idle"
    /\ state' = init_state
    /\ todo' = <<>>
    /\ result' = NoResult

\* the locals of poll_until_complete go with the process
PollGone ==
    /\ clock' = 0
    /\ poll_interval' = 1
    /\ max_wait' = 0
    /\ no_wait' = FALSE
    /\ ret' = FALSE
    /\ failed' = {}
    /\ failedBefore' = {}
    /\ sleptUntil' = 0

\* main(): load the state, then submit_batches up to its loop
StartSubmit(limited, max_batches) ==
    /\ pc = "idle"
    /\ runs < MaxRuns
    /\ runs' = runs + 1
    /\ LET st == load_state(fs[StatePath])
           pending == PendingFiles(discover_batch_files(files), st)
       IN IF IsRaised(st)
          THEN \* the exception of load_state ends the run
               /\ ProcessGone
               /\ runsDone' = runsDone
               /\ clean' = FALSE
          ELSE IF pending = <<>>
          THEN \* "No new batches to submit"
               /\ ProcessGone
               /\ runsDone' = runsDone + 1
               /\ clean' = clean
          ELSE IF Limit(pending, limited, max_batches) = <<>>
          THEN \* the loop body never runs
               /\ ProcessGone
               /\ runsDone' = runsDone + 1
               /\ clean' = FALSE
          ELSE /\ pc' = "submit"
               /\ state' = st
               /\ todo' = Limit(pending, limited, max_batches)
               /\ result' = NoResult
               /\ runsDone' = runsDone
               /\ clean' = (clean /\ ~limited)
    /\ UNCHANGED <<outsideOrch, saveVars, files, fs, svcJobs, lastCall, pollVars>>

\* submit_batch(batch_file): the service creates the batch and answers
SubmitCall ==
    /\ pc = "submit"
    /\ todo # <<>>
    /\ svcJobs' = Append(svcJobs,
                         [request_file |-> Head(todo), status |-> "in_progress"])
    /\ result' = [batch_id |-> Len(svcJobs) + 1, processing_status |-> "in_progress"]
    /\ pc' = "created"
    /\ UNCHANGED <<outsideOrch, saveVars, files, fs, state, todo, runs, runsDone, clean, lastCall, pollVars>>

\* submit_batch raises RuntimeError: save_state, re-raise, the run ends
SubmitFail ==
    /\ pc = "submit"
    /\ todo # <<>>
    /\ fs' = Saved(fs, state)
    /\ ProcessGone
    /\ clean' = FALSE
    /\ UNCHANGED <<outsideOrch, saveVars, files, svcJobs, runs, runsDone, lastCall, pollVars>>

\* batch_entry = {...}; state["batches"].append(batch_entry)
AppendEntry ==
    /\ pc = "created"
    /\ state' = [state EXCEPT !.batches =
                     Append(@, batch_entry(Head(todo), result))]
    /\ pc' = "appended"
    /\ UNCHANGED <<outsideOrch, saveVars, files, fs, svcJobs, todo, result,
                   runs, runsDone, clean, lastCall, pollVars>>

\* "Save after each successful submission": save_state(state, state_path)
SaveEntry ==
    /\ pc = "appended"
    /\ fs' = Saved(fs, state)
    /\ pc' = "entry_saved"
    /\ UNCHANGED <<outsideOrch, saveVars, files, svcJobs, state, todo, result,
                   runs, runsDone, clean, lastCall, pollVars>>

\* the log lines that end the try block, then the next file, or the loop is
\* over and submit_batches returns
NextFile ==
    /\ pc = "entry_saved"
    /\ IF Tail(todo) = <<>>
       THEN /\ ProcessGone
            /\ runsDone' = runsDone + 1
       ELSE /\ pc' = "submit"
            /\ state' = state
            /\ todo' = Tail(todo)
            /\ result' = NoResult
            /\ runsDone' = runsDone
    /\ UNCHANGED <<outsideOrch, saveVars, files, fs, svcJobs, runs, clean,
                   lastCall, pollVars>>

\* save_state(st) stopped after NamedTemporaryFile and before os.replace has
\* happened, by a KeyboardInterrupt or by the end of the process: the
\* temporary file holds the chunks written so far and nothing removes it (the
\* except clause of save_state catches Exception only). No such file when the
\* names the directory can hold are used up.
Orphaned(f, st) ==
    IF \E k \in 1..MaxSaves : ~f[TempPath(k)].exists
    THEN {[f EXCEPT ![FreshTempPath(f)] =
              [exists |-> TRUE, content |-> SubSeq(json_dump(st), 1, n)]] :
             n \in 0..Len(json_dump(st))}
    ELSE {}

\* KeyboardInterrupt anywhere inside the try block, from submit_batch to the
\* log lines: control goes to the handler, "Interrupted by user"
Interrupt ==
    /\ pc \in {"submit", "created", "appended", "entry_saved"}
    /\ pc' = "interrupted"
    /\ clean' = FALSE
    /\ UNCHANGED <<outsideOrch, saveVars, files, fs, svcJobs, state, todo,
                   result, runs, runsDone, lastCall, pollVars>>

\* KeyboardInterrupt inside the try block's save_state, which leaves that
\* call's temporary file behind: control goes to the handler
InterruptInSave ==
    /\ pc = "appended"
    /\ fs' \in Orphaned(fs, state)
    /\ pc' = "interrupted"
    /\ clean' = FALSE
    /\ UNCHANGED <<outsideOrch, saveVars, files, svcJobs, state, todo, result,
                   runs, runsDone, lastCall, pollVars>>

\* except KeyboardInterrupt: save_state(state, state_path), sys.exit(1)
HandlerSave ==
    /\ pc = "interrupted"
    /\ fs' = Saved(fs, state)
    /\ ProcessGone
    /\ UNCHANGED <<outsideOrch, saveVars, files, svcJobs, runs, runsDone,
                   clean, lastCall, pollVars>>

\* the process is killed: memory is lost, the files stay as they are
Kill ==
    /\ pc # "idle"
    /\ ProcessGone
    /\ PollGone
    /\ clean' = FALSE
    /\ lastCall' = NoCall
    /\ temp_path' = NoPath
    /\ UNCHANGED <<outsideOrch, saveHist, files, fs, svcJobs, runs, runsDone>>

\* submit_batches is stopped inside a save_state(state), by a kill or by a
\* further KeyboardInterrupt: that of the try block, that of the handler of
\* KeyboardInterrupt, or that of the handler of a failed submit_batch. Memory
\* is lost, the temporary file of this call stays, next to the one an
\* interrupted save of the try block left. (The steps of save_state itself,
\* for any caller, are those of SpecSave.)
KillInSave ==
    /\ pc \in {"submit", "appended", "interrupted"}
    /\ pc = "submit" => todo # <<>>
    /\ fs' \in Orphaned(fs, state)
    /\ ProcessGone
    /\ PollGone
    /\ clean' = FALSE
    /\ lastCall' = NoCall
    /\ temp_path' = NoPath
    /\ UNCHANGED <<outsideOrch, saveHist, files, svcJobs, runs, runsDone>>

\* ----------------------------------------------- scripts/collect_results.py
\* state["batches"] by position: the lists below hold positions, as the
\* code's lists hold references to the entries
Positions(st) == [i \in 1..Len(Get(st, "batches", <<>>)) |-> i]

get_pending_batchesAll(st) == Positions(st)

get_pending_batches(st) ==
    SelectSeq(Positions(st), LAMBDA i : st.batches[i].status # "ended")

get_downloadable_batchesDone(st) ==
    SelectSeq(Positions(st),
              LAMBDA i : /\ st.batches[i].status = "ended"
                         /\ st.batches[i].results_downloaded)

\* the mutant of get_downloadable_batches for C21: the status is not looked at
get_downloadable_batchesAny(st) ==
    SelectSeq(Positions(st), LAMBDA i : ~st.batches[i].results_downloaded)

get_downloadable_batches(st) ==
    SelectSeq(Positions(st),
              LAMBDA i : /\ st.batches[i].status = "ended"
                         /\ ~st.batches[i].results_downloaded)

\* pipeline/batch.py get_batch_status: the service's view of the batch
get_batch_status(batch_id) == svcJobs[batch_id].status

\* what get_batch_status and download_results raise on an API error, and
\* what the two try blocks catch
ServiceErrors == {"RuntimeError"}
\* the mutant of PollCaught for C24: the poll loop catches nothing
PollCaughtNothing == {}

PollCaught == {"RuntimeError"}
DownloadCaught == {"RuntimeError"}

WaitTimeUncapped(interval, remaining) == interval

\* wait_time = min(poll_interval, remaining)
WaitTime(interval, remaining) == Min(interval, remaining)

CallFor(kind, b) ==
    [kind |-> kind, batch_id |-> b.batch_id, status |-> b.status,
     downloaded |-> b.results_downloaded]

\* main() of collect_results up to the first pass: load the state, exit when
\* it holds no batch or when the filtered comments file is missing, else
\* start poll_batch_statuses
StartCollect(nw, interval, maxwait) ==
    /\ pc = "idle"
    /\ LET st == load_state(fs[StatePath])
       IN IF IsRaised(st)
          THEN \* the exception of load_state ends the run
               /\ ProcessGone
               /\ UNCHANGED pollVars
          ELSE IF Len(Get(st, "batches", <<>>)) = 0
          THEN \* "No batches found in state": sys.exit(1)
               /\ ProcessGone
               /\ UNCHANGED pollVars
          ELSE IF ~fs[FilteredPath].exists
          THEN \* "Filtered comments file not found": sys.exit(1)
               /\ ProcessGone
               /\ UNCHANGED pollVars
          ELSE /\ pc' = "poll"
               /\ state' = st
               /\ todo' = get_pending_batches(st)
               /\ result' = NoResult
               /\ clock' = 0
               /\ poll_interval' = interval
               /\ max_wait' = maxwait
               /\ no_wait' = nw
               /\ ret' = FALSE
               /\ failed' = {}
               /\ failedBefore' = {}
               /\ sleptUntil' = 0
    /\ lastCall' = NoCall
    /\ UNCHANGED <<outsideOrch, saveVars, files, fs, svcJobs, runs, runsDone,
                   clean>>

\* poll_batch_statuses, one iteration: get_batch_status answers
PollOne ==
    /\ pc = "poll"
    /\ todo # <<>>
    /\ LET i == Head(todo)
           b == state.batches[i]
       IN /\ state' = [state EXCEPT !.batches[i].status =
                                       get_batch_status(b.batch_id)]
          /\ lastCall' = CallFor("status", b)
    /\ todo' = Tail(todo)
    /\ UNCHANGED <<outsideOrch, saveVars, files, fs, svcJobs, pc, result, runs, runsDone,
                   clean, pollVars>>

\* poll_batch_statuses, one iteration: get_batch_status raises
PollOneFail(exc) ==
    /\ pc = "poll"
    /\ todo # <<>>
    /\ lastCall' = CallFor("status", state.batches[Head(todo)])
    /\ IF exc \in PollCaught
       THEN /\ todo' = Tail(todo)
            /\ pc' = pc
       ELSE /\ todo' = <<>>
            /\ pc' = "raised"
    /\ UNCHANGED <<outsideOrch, saveVars, files, fs, svcJobs, state, result, runs,
                   runsDone, clean, pollVars>>

\* the end of poll_batch_statuses: save_state, then get_downloadable_batches
PollDone(d) ==
    /\ pc = "poll"
    /\ todo = <<>>
    /\ fs' = Saved(fs, state)
    /\ clock' = clock + d
    /\ pc' = "download"
    /\ todo' = get_downloadable_batches(state)
    /\ UNCHANGED <<outsideOrch, saveVars, files, svcJobs, state, result, runs, runsDone,
                   clean, lastCall, poll_interval, max_wait, no_wait, ret,
                   failed, failedBefore, sleptUntil>>

\* the results the service holds for a batch: one per request, here one
ServiceResults(batch_id) ==
    LET id == svcJobs[batch_id].request_file.num
    IN IF id \in FailingRequests THEN <<NotSucceeded(id, "errored")>>
       ELSE <<Succeeded(id, ServiceContent)>>

\* download_batch_results: the file written from download_results
ResultsFile(batch_id) == [exists |-> TRUE, content |-> ServiceResults(batch_id)]

\* the download loop, one iteration: download_batch_results returns, having
\* written the results file, and the flag is set in the state dict
DownloadOne ==
    /\ pc = "download"
    /\ todo # <<>>
    /\ LET i == Head(todo)
       IN /\ state' = [state EXCEPT !.batches[i].results_downloaded = TRUE]
          /\ fs' = [fs EXCEPT ![ResultsPath(state.batches[i].batch_num)] =
                                  ResultsFile(state.batches[i].batch_id)]
          /\ lastCall' = CallFor("download", state.batches[i])
    /\ pc' = "flagged"
    /\ UNCHANGED <<outsideOrch, saveVars, files, svcJobs, todo, result, runs,
                   runsDone, clean, pollVars>>

\* the download loop, one iteration: save_state(state, state_path) after the
\* flag was set
SaveFlag ==
    /\ pc = "flagged"
    /\ fs' = Saved(fs, state)
    /\ todo' = Tail(todo)
    /\ pc' = "download"
    /\ UNCHANGED <<outsideOrch, saveVars, files, svcJobs, state, result, runs,
                   runsDone, clean, lastCall, pollVars>>

\* what a results file holds when the process ends inside the write loop of
\* download_batch_results: some of the lines, the last of them cut off or not
PartWritten(lines) ==
    {SubSeq(lines, 1, n) : n \in 0..(Len(lines) - 1)}
        \cup {Append(SubSeq(lines, 1, n), Truncated) : n \in 0..(Len(lines) - 1)}

\* the process is killed inside download_batch_results, while the results
\* file is written
KillInDownload ==
    /\ pc = "download"
    /\ todo # <<>>
    /\ LET b == state.batches[Head(todo)]
       IN \E c \in PartWritten(ServiceResults(b.batch_id)) :
             fs' = [fs EXCEPT ![ResultsPath(b.batch_num)] =
                                  [exists |-> TRUE, content |-> c]]
    /\ ProcessGone
    /\ PollGone
    /\ clean' = FALSE
    /\ lastCall' = NoCall
    /\ temp_path' = NoPath
    /\ UNCHANGED <<outsideOrch, saveHist, files, svcJobs, runs, runsDone>>

\* the download loop, one iteration: download_results raises
DownloadOneFail(exc) ==
    /\ pc = "download"
    /\ todo # <<>>
    /\ lastCall' = CallFor("download", state.batches[Head(todo)])
    /\ IF exc \in DownloadCaught
       THEN /\ todo' = Tail(todo)
            /\ pc' = pc
            /\ failed' = failed \cup {Head(todo)}
       ELSE /\ todo' = <<>>
            /\ pc' = "raised"
            /\ failed' = failed
    /\ UNCHANGED <<outsideOrch, saveVars, files, fs, svcJobs, state, result, runs,
                   runsDone, clean, clock, poll_interval, max_wait, no_wait,
                   ret, failedBefore, sleptUntil>>

\* the download loop is over
DownloadDone ==
    /\ pc = "download"
    /\ todo = <<>>
    /\ pc' = IF no_wait THEN "finish" ELSE "check"
    /\ UNCHANGED <<outsideOrch, saveVars, files, fs, svcJobs, state, todo, result, runs,
                   runsDone, clean, lastCall, pollVars>>

\* poll_until_complete: "Check if all done", "Check timeout"
Check ==
    /\ pc = "check"
    /\ IF get_pending_batches(state) = <<>>
       THEN /\ pc' = "returned"
            /\ ret' = TRUE
       ELSE IF clock >= max_wait
       THEN /\ pc' = "returned"
            /\ ret' = FALSE
       ELSE /\ pc' = "sleep"
            /\ ret' = ret
    /\ UNCHANGED <<outsideOrch, saveVars, files, fs, svcJobs, state, todo, result, runs,
                   runsDone, clean, lastCall, clock, poll_interval, max_wait,
                   no_wait, failed, failedBefore, sleptUntil>>

\* time.sleep(wait_time), then the next pass starts
Sleep ==
    /\ pc = "sleep"
    /\ clock' = clock + WaitTime(poll_interval, max_wait - clock)
    /\ sleptUntil' = clock'
    /\ pc' = "poll"
    /\ todo' = get_pending_batches(state)
    /\ failedBefore' = failedBefore \cup failed
    /\ failed' = {}
    /\ UNCHANGED <<outsideOrch, saveVars, files, fs, svcJobs, state, result, runs,
                   runsDone, clean, lastCall, poll_interval, max_wait,
                   no_wait, ret>>

\* [b for b in state["batches"] if not b.get("results_downloaded", False)]
not_downloaded(st) ==
    SelectSeq(Positions(st), LAMBDA i : ~st.batches[i].results_downloaded)

\* the mutant of CannotBuild for C28: only the statuses are looked at
CannotBuildPendingOnly(st) == get_pending_batches(st) # <<>>

\* main() of collect_results: "if pending or not_downloaded"
CannotBuild(st) ==
    get_pending_batches(st) # <<>> \/ not_downloaded(st) # <<>>

\* sentiment_df.write_parquet(output_path)
OutputFile(joined_df) == [exists |-> TRUE, content |-> joined_df]

\* sorted(responses_dir.glob("batch_*_results.jsonl")), each as its lines
GlobResults(f) ==
    LET nums == SortedByName({n \in 1..MaxFiles : f[ResultsPath(n)].exists},
                             FALSE)
    IN [i \in 1..Len(nums) |-> f[ResultsPath(nums[i])].content]

\* the identifiers in the filtered comments file
FilteredIds(f) ==
    {f[FilteredPath].content[i] : i \in 1..Len(f[FilteredPath].content)}

\* main() of collect_results after the polling: "Cannot build final output"
\* and sys.exit(0), or build_sentiment_dataframe, which sets the totals of
\* the state dict, and write_parquet; FileNotFoundError is sys.exit(1), any
\* other exception is raised again
Finish ==
    /\ pc \in {"returned", "finish"}
    /\ IF CannotBuild(state)
       THEN /\ fs' = fs
            /\ ProcessGone
       ELSE \E b \in {BuildFrame(GlobResults(fs), FilteredIds(fs))} :
               IF b.result.outcome = "raise"
               THEN /\ fs' = fs
                    /\ IF b.result.value = "FileNotFoundError"
                       THEN ProcessGone
                       ELSE /\ pc' = "build_raised"
                            /\ state' = WithTotals(state, b.totals)
                            /\ todo' = <<>>
                            /\ result' = NoResult
               ELSE /\ fs' = [fs EXCEPT ![OutputPath] =
                                       OutputFile(b.result.value.joined_df)]
                    /\ pc' = "written"
                    /\ state' = WithTotals(state, b.totals)
                    /\ todo' = b.result.value.failed_requests
                    /\ result' = NoResult
    /\ PollGone
    /\ lastCall' = NoCall
    /\ UNCHANGED <<outsideOrch, saveVars, files, svcJobs, runs, runsDone, clean>>

\* "Save failed requests": failed_requests.jsonl is written when there are any
WriteFailed ==
    /\ pc = "written"
    /\ todo # <<>>
    /\ fs' = [fs EXCEPT ![FailedPath] = [exists |-> TRUE, content |-> todo]]
    /\ todo' = <<>>
    /\ pc' = "failed_written"
    /\ UNCHANGED <<outsideOrch, saveVars, files, svcJobs, state, result, runs,
                   runsDone, clean, lastCall, pollVars>>

\* "Update and save final state": save_state with the totals, the summary,
\* the end of main()
SaveFinal ==
    /\ \/ pc = "written" /\ todo = <<>>
       \/ pc = "failed_written"
    /\ fs' = Saved(fs, state)
    /\ ProcessGone
    /\ UNCHANGED <<outsideOrch, saveVars, files, svcJobs, runs, runsDone,
                   clean, lastCall, pollVars>>

\* what mkdir and write_parquet can raise
WriteExceptions == {"OSError", "FileNotFoundError"}

\* build_sentiment_dataframe returned, having set the totals of the state
\* dict, and mkdir or write_parquet raises (the disk is full, the directory
\* is gone): nothing is written; FileNotFoundError is sys.exit(1), any other
\* exception is raised again
BuildFail(exc) ==
    /\ pc \in {"returned", "finish"}
    /\ ~CannotBuild(state)
    /\ \E b \in {BuildFrame(GlobResults(fs), FilteredIds(fs))} :
          /\ b.result.outcome # "raise"
          /\ IF exc = "FileNotFoundError"
             THEN ProcessGone
             ELSE /\ pc' = "build_raised"
                  /\ state' = WithTotals(state, b.totals)
                  /\ todo' = <<>>
                  /\ result' = NoResult
    /\ PollGone
    /\ lastCall' = NoCall
    /\ UNCHANGED <<outsideOrch, saveVars, files, fs, svcJobs, runs, runsDone,
                   clean>>

\* the process ends: save_state's caller is over, or the exception reached
\* the top
Exit ==
    /\ pc \in {"saved", "raised", "build_raised"}
    /\ ProcessGone
    /\ PollGone
    /\ lastCall' = NoCall
    /\ temp_path' = NoPath
    /\ UNCHANGED <<outsideOrch, saveHist, files, fs, svcJobs, runs, runsDone, clean>>

\* the classification service finishes a batch
SvcEnd(j) ==
    /\ svcJobs[j].status = "in_progress"
    /\ svcJobs' = [svcJobs EXCEPT ![j].status = "ended"]
    /\ UNCHANGED <<outsideOrch, saveVars, files, fs, state, pc, todo, result, runs,
                   runsDone, clean, lastCall, pollVars>>

InitParseIdle ==
    /\ text = <<>>
    /\ body = NoTok
    /\ parsed = NoDict

InitPipeIdle ==
    /\ steps = <<>>
    /\ stats = [k \in {"total", "accepted"} |-> 0]
    /\ processed = NoDict

InitCallIdle ==
    /\ args = NoDict
    /\ value = NoDict

InitLibIdle ==
    /\ InitPipeIdle
    /\ InitCallIdle

InitJoinIdle ==
    /\ results_files = <<>>
    /\ comments = {}
    /\ built = NoDict

InitFetchIdle ==
    /\ archive = <<>>
    /\ inclusive = FALSE
    /\ page_size = 1
    /\ delay = 0
    /\ after = 0
    /\ before = 0
    /\ current_after = 0
    /\ requests = <<>>
    /\ yielded = <<>>
    /\ headers = [h \in {} |-> <<>>]
    /\ now = 0
    /\ slept = <<>>
    /\ fetchPc = "idle"

InitSaveIdle ==
    /\ committed = NoFile
    /\ saving = NoDict
    /\ loaded = NoDict
    /\ savedState = NoDict
    /\ initDoc = NoDict
    /\ temp_path = NoPath

InitProcIdle ==
    /\ state = init_state
    /\ pc = "idle"
    /\ todo = <<>>
    /\ result = NoResult
    /\ runs = 0
    /\ runsDone = 0
    /\ clean = TRUE
    /\ lastCall = NoCall

InitPollIdle ==
    /\ clock = 0
    /\ poll_interval = 1
    /\ max_wait = 0
    /\ no_wait = FALSE
    /\ ret = FALSE
    /\ failed = {}
    /\ failedBefore = {}
    /\ sleptUntil = 0

\* no batch script is running and nothing was submitted
InitOrchIdle ==
    /\ files = {}
    /\ fs = NoFiles
    /\ svcJobs = <<>>
    /\ InitProcIdle
    /\ InitPollIdle
    /\ InitSaveIdle

InitOutsideOrch ==
    /\ InitParseIdle
    /\ InitJoinIdle
    /\ InitFetchIdle
    /\ InitLibIdle

\* the filtered comments file: one comment per request
FilteredFile(ids) == [exists |-> TRUE, content |-> SortedSeq(ids)]

\* the directories before the first run, with or without the filtered file
StartFiles(ids) ==
    {NoFiles, [NoFiles EXCEPT ![FilteredPath] = FilteredFile(ids)]}

InitSubmit ==
    /\ files \in (SUBSET (1..MaxFiles)) \ {{}}
    /\ InitSaveIdle
    /\ InitOutsideOrch
    /\ fs \in StartFiles(files)
    /\ svcJobs = <<>>
    /\ InitProcIdle
    /\ InitPollIdle

NextSubmit ==
    \/ StartSubmit(FALSE, 0)
    \/ \E m \in (-1)..MaxFiles : StartSubmit(TRUE, m)
    \/ SubmitCall
    \/ SubmitFail
    \/ AppendEntry
    \/ SaveEntry
    \/ NextFile
    \/ Interrupt
    \/ InterruptInSave
    \/ HandlerSave
    \/ Kill
    \/ KillInSave

SpecSubmit == InitSubmit /\ [][NextSubmit]_vars

\* C1: across all runs, interrupted or not, no request file is handed to the
\* classification service more than once.
C1_NeverSubmittedTwice ==
    \A n \in files : SubmitCount(FileName(n)) <= 1

\* C2: after a run of submit_batches that ran to completion with no failure
\* and no batch limit, the state file holds exactly one job entry per request
\* file and every file was handed to the service exactly once, whatever
\* further runs do: a second run submits nothing and appends nothing.
C2_SecondRunIsNoOp ==
    (clean /\ runsDone >= 1) =>
        LET saved == load_state(fs[StatePath]).batches
        IN /\ Len(saved) = Cardinality(files)
           /\ \A n \in files :
                /\ SubmitCount(FileName(n)) = 1
                /\ Cardinality({i \in 1..Len(saved) :
                                    saved[i].request_file = FileName(n)}) = 1

C2_Witness ==
    /\ clean
    /\ runsDone >= 2
    /\ Cardinality(files) >= 2
    /\ Len(svcJobs) = Cardinality(files)

\* the state a completed submission leaves: one in_progress job per file
Submitted(n) ==
    [init_state EXCEPT !.batches =
        [i \in 1..n |-> batch_entry(FileName(i),
                           [batch_id |-> i, processing_status |-> "in_progress"])]]

InitCollect ==
    /\ InitProcIdle
    /\ InitSaveIdle
    /\ InitOutsideOrch
    /\ InitPollIdle
    /\ \E n \in 1..MaxFiles :
          /\ files = 1..n
          /\ svcJobs = [i \in 1..n |->
                          [request_file |-> FileName(i), status |-> "in_progress"]]
          /\ \E f \in StartFiles(1..n) : fs = Saved(f, Submitted(n))

\* the steps of a collection pass and of the polling loop
PollStep ==
    \/ PollOne
    \/ \E exc \in ServiceErrors : PollOneFail(exc)
    \/ \E d \in 0..MaxPassTime : PollDone(d)
    \/ DownloadOne
    \/ SaveFlag
    \/ \E exc \in ServiceErrors : DownloadOneFail(exc)
    \/ DownloadDone
    \/ Check
    \/ Sleep

CollectStep ==
    \/ PollStep
    \/ Finish
    \/ WriteFailed
    \/ SaveFinal
    \/ \E exc \in WriteExceptions : BuildFail(exc)
    \/ Exit

NextCollect ==
    \/ \E nw \in BOOLEAN, interval \in 1..MaxInterval, maxwait \in 0..MaxWait :
          StartCollect(nw, interval, maxwait)
    \/ CollectStep
    \/ \E j \in 1..Len(svcJobs) : SvcEnd(j)
    \/ Kill

\* a running process keeps running: the next step of its polling is
\* eventually taken
SpecCollect == InitCollect /\ [][NextCollect]_vars /\ WF_vars(PollStep)

Ended(i) == state.batches[i].status = "ended"
Downloaded(i) == state.batches[i].results_downloaded

\* C3: in a collection pass no status call is made for a job whose entry is
\* already ended, and neither a status call nor a download call is made for a
\* job whose entry is ended with results_downloaded true.
C3_NoCallForFinishedJob ==
    /\ lastCall.kind = "status" => lastCall.status # "ended"
    /\ lastCall.kind \in {"status", "download"} =>
           ~(lastCall.status = "ended" /\ lastCall.downloaded)

C3_Witness ==
    /\ pc = "poll"
    /\ lastCall.kind = "status"
    /\ \E i \in 1..Len(state.batches) :
          /\ Ended(i)
          /\ Downloaded(i)
          /\ state.batches[i].batch_id # lastCall.batch_id

\* C4 as stated: passes continue until the download has succeeded, so when
\* poll_until_complete returns every ended job has results_downloaded true.
C4_PassesContinueUntilDownloaded ==
    pc = "returned" => \A i \in 1..Len(state.batches) : Ended(i) => Downloaded(i)

\* C4 amended: at the end of every pass each ended job either has
\* results_downloaded true or had a download attempt in this pass that failed
\* and left the flag false; a job whose download failed in an earlier pass
\* was attempted again. (The loop itself stops when no job is pending or at
\* max_wait, whether or not the downloads succeeded.)
C4_EveryPassAttemptsDownloads ==
    pc \in {"check", "finish"} =>
        /\ \A i \in 1..Len(state.batches) :
              Ended(i) => (Downloaded(i) <=> i \notin failed)
        /\ \A i \in failedBefore : Downloaded(i) \/ i \in failed

C4_Witness ==
    /\ pc = "check"
    /\ \E i \in failedBefore : Downloaded(i)
    /\ failed # {}

C5_Safety ==
    /\ pc # "raised"
    /\ pc = "returned" =>
          /\ ret <=> (get_pending_batches(state) = <<>>)
          /\ ~ret => clock >= max_wait
    /\ pc = "sleep" => (get_pending_batches(state) # <<>> /\ clock < max_wait)
    /\ sleptUntil <= max_wait

\* C5: poll_until_complete ends with a flag: no service error propagates, it
\* returns True exactly when a pass ends with no pending job, False only with
\* pending jobs and elapsed >= max_wait, goes on otherwise, no sleep ends
\* after max_wait, and every call of it returns (unless the process is killed).
C5_PollReturnsAFlag ==
    /\ []C5_Safety
    /\ (pc \in {"poll", "download", "flagged", "check", "sleep"} /\ ~no_wait)
          ~> (pc \in {"returned", "idle"})

C5_Witness ==
    /\ pc = "returned"
    /\ ~ret
    /\ max_wait > 0
    /\ poll_interval > max_wait
    /\ sleptUntil = max_wait
    /\ lastCall.kind = "status"


\* ------------------------------------------- pipeline/batch.py save_state
\* a batch entry as submit_batches and collect_results leave it
EntryOf(n, status, downloaded) ==
    [batch_entry(FileName(n), [batch_id |-> n, processing_status |-> status])
        EXCEPT !.results_downloaded = downloaded]

\* the documents a state file can hold: any subset of the keys
FullDocs ==
    [total_input_tokens : {0, 7}, total_output_tokens : {3},
     estimated_cost_usd : {5},
     batches : {<<>>, <<EntryOf(1, "ended", TRUE)>>},
     extra : {1}]

\* the orders in which a state file holds its keys: that of init_state with
\* the foreign key last, and the opposite one
KeyOrders ==
    {AllKeys, [i \in 1..Len(AllKeys) |-> AllKeys[Len(AllKeys) + 1 - i]]}

Docs ==
    {[k \in K \cup {"key_order"} |->
         IF k = "key_order" THEN SelectSeq(order, LAMBDA x : x \in K)
         ELSE r[k]] :
        r \in FullDocs, K \in SUBSET (Keys(init_state) \cup {"extra"}),
        order \in KeyOrders}

\* main(): load_state(state_path)
Load ==
    /\ pc = "idle"
    /\ runs < MaxSaves
    /\ runs' = runs + 1
    /\ IF IsRaised(load_state(fs[StatePath]))
       THEN \* json.load raises: the exception leaves main()
            /\ loaded' = loaded
            /\ state' = state
            /\ pc' = "raised"
       ELSE /\ loaded' = load_state(fs[StatePath])
            /\ state' = loaded'
            /\ pc' = "loaded"
    /\ UNCHANGED <<outsideOrch, files, fs, svcJobs, todo, result, runsDone,
                   clean, lastCall, pollVars, committed, saving, savedState,
                   initDoc, temp_path>>

\* a mutation of the state dict followed by the call of save_state:
\* state_path.parent.mkdir(parents=True, exist_ok=True)
SaveStart(st) ==
    /\ pc = "loaded"
    /\ state' = st
    /\ committed' = fs[StatePath]
    /\ saving' = st
    /\ pc' = "save_open"
    /\ UNCHANGED <<outsideOrch, files, fs, svcJobs, todo, result, runs,
                   runsDone, clean, lastCall, pollVars, loaded, savedState,
                   initDoc, temp_path>>

\* tempfile.NamedTemporaryFile(mode="w", dir=..., suffix=".tmp", delete=False):
\* a new file under a name no file of the directory has
SaveOpenTmp(p) ==
    /\ pc = "save_open"
    /\ ~fs[p].exists
    /\ p = FreshTempPath(fs)
    /\ fs' = [fs EXCEPT ![p] = [exists |-> TRUE, content |-> <<>>]]
    /\ temp_path' = p
    /\ todo' = json_dump(state)
    /\ pc' = "save_write"
    /\ UNCHANGED <<outsideOrch, saveHist, files, svcJobs, state, result, runs,
                   runsDone, clean, lastCall, pollVars>>

\* json.dump(state, f): one more chunk reaches the temporary file
SaveWriteChunk ==
    /\ pc = "save_write"
    /\ todo # <<>>
    /\ fs' = [fs EXCEPT ![temp_path].content = Append(@, Head(todo))]
    /\ todo' = Tail(todo)
    /\ UNCHANGED <<outsideOrch, saveVars, files, svcJobs, state, pc, result,
                   runs, runsDone, clean, lastCall, pollVars>>

\* json.dump raises (OSError on write): the with block closes the file and
\* the exception leaves save_state; nothing removes the temporary file
SaveWriteFail ==
    /\ pc = "save_write"
    /\ todo # <<>>
    /\ todo' = <<>>
    /\ temp_path' = NoPath
    /\ pc' = "raised"
    /\ UNCHANGED <<outsideOrch, saveHist, files, fs, svcJobs, state, result,
                   runs, runsDone, clean, lastCall, pollVars>>

\* os.replace(temp_path, state_path)
SaveReplace ==
    /\ pc = "save_write"
    /\ todo = <<>>
    /\ fs' = Replace(fs, temp_path)
    /\ temp_path' = NoPath
    /\ savedState' = state
    /\ pc' = "saved"
    /\ UNCHANGED <<outsideOrch, files, svcJobs, state, todo, result, runs,
                   runsDone, clean, lastCall, pollVars, committed, saving,
                   loaded, initDoc>>

\* os.replace raises: Path(temp_path).unlink(missing_ok=True); raise
SaveReplaceFail ==
    /\ pc = "save_write"
    /\ todo = <<>>
    /\ fs' = [fs EXCEPT ![temp_path] = NoFile]
    /\ temp_path' = NoPath
    /\ pc' = "raised"
    /\ UNCHANGED <<outsideOrch, saveHist, files, svcJobs, state, todo, result,
                   runs, runsDone, clean, lastCall, pollVars>>

\* the mutations of the state dict the scripts make before a save_state
Mutations(st) ==
    {[st EXCEPT !.batches =
          Append(@, EntryOf(Len(@) + 1, "in_progress", FALSE))],
     [st EXCEPT !.total_input_tokens = @ + 1]}

\* a state file that is no document: empty, or cut off in the middle
Damaged == [damaged |-> TRUE]
DamagedContents == {<<>>, SubSeq(json_dump(init_state), 1, 2)}

InitSave ==
    /\ files = {1}
    /\ svcJobs = <<>>
    /\ InitProcIdle
    /\ InitPollIdle
    /\ InitOutsideOrch
    /\ saving = NoDict
    /\ loaded = NoDict
    /\ savedState = NoDict
    /\ temp_path = NoPath
    /\ \/ /\ initDoc = NoDict
          /\ fs = NoFiles
       \/ /\ initDoc \in Docs
          /\ fs = Saved(NoFiles, initDoc)
       \/ /\ initDoc = Damaged
          /\ \E c \in DamagedContents :
                fs = [NoFiles EXCEPT ![StatePath] =
                                        [exists |-> TRUE, content |-> c]]
    /\ committed = fs[StatePath]

NextSave ==
    \/ Load
    \/ \E st \in Mutations(state) : SaveStart(st)
    \/ \E p \in TempPaths : SaveOpenTmp(p)
    \/ SaveWriteChunk
    \/ SaveWriteFail
    \/ SaveReplace
    \/ SaveReplaceFail
    \/ Exit
    \/ Kill

SpecSave == InitSave /\ [][NextSave]_vars

\* C6: whenever the process stops during save_state, the file at the state
\* path is the complete previously committed file or the complete new state,
\* never a partial document.
C6_StateFileNeverPartial ==
    /\ fs[StatePath] = committed \/ fs[StatePath] = SavedFile(saving)
    /\ (fs[StatePath].exists /\ initDoc # Damaged) =>
           IsJsonDocument(fs[StatePath].content)

C6_Witness ==
    /\ pc = "idle"
    /\ \E p \in TempPaths : fs[p].exists /\ Len(fs[p].content) = 2
    /\ fs[StatePath] = committed
    /\ committed.exists
    /\ saving # NoDict

\* C7: load_state after a completed save_state(s) returns s; load_state of a
\* missing file returns init_state; load_state of a file lacking required keys
\* returns the file's content with exactly the missing keys set to their
\* init_state defaults and every present key unchanged.
C7_LoadRoundTrip ==
    pc = "loaded" =>
        IF savedState # NoDict THEN loaded = savedState
        ELSE IF initDoc = NoDict THEN loaded = init_state
        ELSE /\ Keys(loaded) = Keys(initDoc) \cup Keys(init_state)
             /\ \A k \in Keys(initDoc) : loaded[k] = initDoc[k]
             /\ \A k \in Keys(init_state) \ Keys(initDoc) :
                    loaded[k] = init_state[k]

C7_Witness ==
    /\ pc = "loaded"
    /\ savedState # NoDict
    /\ Len(savedState.batches) = 1
    /\ "extra" \in DOMAIN savedState
    /\ "batches" \notin DOMAIN initDoc


\* ------------------------------ pipeline/batch.py parse_response, checked
\* the model responses checked
Labels == {JStr(POS), JStr(NEG), JStr(NEU), JStr(<<"b", "a", "d">>), JNum(1), JNull}
Confidences ==
    {JNum(90), JBool(TRUE), JStr(<<"1">>), JStr(<<"0", ".", "9">>),
     JStr(<<" ", "-", "1", "e", "2">>), JStr(<<"N", "a", "N">>),
     JStr(<<"h", "i">>), JStr(<<"1", "_">>), JNull, JHuge}
Players == {JStr(<<"L", "B", "J">>), JNull}

Objects ==
    {JObj(<<>>), JObj([x |-> JNum(1)])}
    \cup {JObj([s |-> l]) : l \in Labels}
    \cup {JObj([s |-> l, c |-> c]) : l \in {JStr(POS), JStr(NEU)}, c \in Confidences}
    \cup {JObj([s |-> JStr(NEG), c |-> JNum(50), p |-> p]) : p \in Players}

Scalars ==
    {JStr(POS), JStr(<<"s">>), JStr(<<"a", "b", "c">>), JStr(<<>>),
     JNum(5), JNull, JBool(TRUE)}

Arrays ==
    {JArr(<<>>), JArr(<<JArr(<<>>)>>), JArr(<<JArr(<<JStr(<<"s">>)>>)>>)}
    \cup {JArr(<<v>>) : v \in Objects \cup Scalars}
    \cup {JArr(<<v, JNum(5)>>) : v \in Objects}

Bodies == {NoTok, JUNK, LANG, LONGINT} \cup {JsonTok(v) : v \in Objects \cup Scalars \cup Arrays}

Opt(tok) == {<<>>, <<tok>>}

InitParse ==
    /\ InitOrchIdle
    /\ InitJoinIdle
    /\ InitFetchIdle
    /\ InitLibIdle
    /\ body \in Bodies
    /\ \E lead \in Opt(WS), open \in {<<>>, <<FENCE>>, <<FENCE, LANG>>},
          gap1 \in Opt(WS), gap2 \in Opt(WS), close \in Opt(FENCE),
          trail \in Opt(WS) :
          text = lead \o open \o gap1
                 \o (IF body = NoTok THEN <<>> ELSE <<body>>)
                 \o gap2 \o close \o trail
    /\ parsed = NoDict

Parse ==
    /\ parsed = NoDict
    /\ parsed' = parse_response(text)
    /\ UNCHANGED <<orchVars, pollVars, saveVars, joinVars, fetchVars, libVars, text,
                   body>>

NextParse == Parse

SpecParse == InitParse /\ [][NextParse]_vars


\* the value the claim speaks of: the body's JSON value, or the first element
\* of a non-empty array
Inner(tok) ==
    IF tok.t # "json" THEN JNull
    ELSE IF tok.v.j = "arr" /\ Len(tok.v.a) > 0 THEN tok.v.a[1]
    ELSE tok.v

IsLabelled(v) ==
    /\ v.j = "obj"
    /\ "s" \in DOMAIN v.o
    /\ v.o["s"] \in {JStr(POS), JStr(NEG), JStr(NEU)}

\* C8: parse_response never raises; it returns the succeeded variant (label,
\* confidence c or 0.0, p or null) exactly when the text, stripped of
\* whitespace and one fence, is a JSON object (or an array starting with one)
\* whose s is pos, neg or neu, and else the error variant with s = error,
\* c = 0.0, p = null and raw = the original text. (A labelled object whose c
\* is not a number is left open here.)
C8_ParseIsTotal ==
    parsed # NoDict =>
        /\ parsed.outcome = "return"
        /\ IF IsLabelled(Inner(body))
           THEN Get(Inner(body).o, "c", JNum(0)).j = "num" =>
                    parsed.value = [s |-> Inner(body).o["s"].s,
                                    c |-> Get(Inner(body).o, "c", JNum(0)).n,
                                    p |-> Get(Inner(body).o, "p", JNull)]
           ELSE parsed.value = ErrorVariant(text)


\* ---------------- scripts/collect_results.py build_sentiment_dataframe, checked
build_sentiment_dataframe ==
    /\ built = NoDict
    /\ \E b \in {BuildFrame(results_files, comments)} :
          /\ built' = b.result
          /\ state' = WithTotals(state, b.totals)
    /\ UNCHANGED <<files, fs, svcJobs, pc, todo, result, runs, runsDone, clean,
                   lastCall, pollVars, saveVars, parseVars, fetchVars, libVars,
                   results_files, comments>>

InitJoin ==
    /\ InitOrchIdle
    /\ InitParseIdle
    /\ InitFetchIdle
    /\ InitLibIdle
    /\ results_files \in SeqsUpTo(ResultsFiles, MaxResultFiles)
    /\ comments \in SUBSET (1..MaxIds)
    /\ built = NoDict

NextJoin == build_sentiment_dataframe

SpecJoin == InitJoin /\ [][NextJoin]_vars

ResultLines == SelectSeq(Flatten(results_files), LAMBDA l : l # Blank)

IsSucceeded(l) == l.result_type = "succeeded"

CountOf(sq, Test(_)) == Len(SelectSeq(sq, Test))

\* C9: build_sentiment_dataframe puts every downloaded result in exactly one
\* of three outcomes: a result that did not succeed is in the failures list,
\* a succeeded result whose identifier is a Filtered Record's gives exactly
\* one row of the joined dataset, a succeeded result with no Filtered Record
\* is dropped and the reported drop count is the number of those; the joined
\* dataset has no row for a Filtered Record without a succeeded result.
C9_EveryResultHasOneOutcome ==
    (built # NoDict /\ results_files # <<>>) =>
        /\ built.outcome = "return"
        /\ built.value.failed_requests =
               SelectSeq(ResultLines, LAMBDA l : ~IsSucceeded(l))
        /\ \A i \in 1..MaxIds :
               CountOf(built.value.joined_df, LAMBDA r : r.comment_id = i) =
                   IF i \in comments
                   THEN CountOf(ResultLines,
                                LAMBDA l : IsSucceeded(l) /\ l.custom_id = i)
                   ELSE 0
        /\ built.value.dropped =
               CountOf(ResultLines,
                       LAMBDA l : IsSucceeded(l) /\ l.custom_id \notin comments)


\* ------------------------------- pipeline/arctic_shift.py ArcticShiftClient
MaxTime == 2
MaxRecords == 3
MaxPageSize == 2

\* ARCTIC_SHIFT_RATE_LIMIT_BUFFER, and the sleep when no reset time is given
RateLimitBuffer == 10
FallbackSleep == 60

REMAINING == "X-RateLimit-Remaining"
RESET == "X-RateLimit-Reset"

NoHeaders == [h \in {} |-> <<>>]

\* the response headers the archive may send: header values are strings
HeaderSets ==
    {NoHeaders,
     REMAINING :> <<"1", "0">>,
     REMAINING :> <<"9">>,
     REMAINING :> <<"9">> @@ RESET :> <<>>,
     REMAINING :> <<"9">> @@ RESET :> <<"5">>,
     REMAINING :> <<"9">> @@ RESET :> <<"1", ".", "5">>,
     REMAINING :> <<>>,
     RESET :> <<"5">>}

\* int(time.time()) at the rate-limit check
Times == {4, 7}

\* the archive's records, in the order sort=asc serves them
Record(i) == [id |-> i, created_utc |-> archive[i]]

InRange(ts, lo, hi) ==
    IF inclusive THEN lo <= ts /\ ts <= hi ELSE lo < ts /\ ts < hi

\* the archive's answer to after=lo, before=hi, sort=asc, limit=limit
ServerPage(lo, hi, limit) ==
    LET all == [i \in 1..Len(archive) |-> Record(i)]
        matching == SelectSeq(all, LAMBDA r : InRange(r.created_utc, lo, hi))
    IN SubSeq(matching, 1, Min(limit, Len(matching)))

\* the mutant of NextCursor for C25: the cursor steps back
NextCursorBack(last_timestamp) == last_timestamp - 1

NextCursorSame(last_timestamp) == last_timestamp

\* "Update cursor to last item's timestamp + 1 to avoid refetching"
NextCursor(last_timestamp) == last_timestamp + 1

\* the mutant of check_rate_limit for C27: it sleeps at the buffer as well
check_rate_limitAtBuffer(hdrs, t) ==
    IF REMAINING \notin DOMAIN hdrs THEN Return(<<>>)
    ELSE IF IntRaises(hdrs[REMAINING]) THEN Raise("ValueError")
    ELSE IF int(hdrs[REMAINING]) <= RateLimitBuffer
    THEN IF RESET \in DOMAIN hdrs /\ hdrs[RESET] # <<>>
         THEN IF IntRaises(hdrs[RESET]) THEN Raise("ValueError")
              ELSE LET reset_ts == int(hdrs[RESET])
                   IN Return(<<(IF reset_ts - t > 0 THEN reset_ts - t ELSE 0) + 1>>)
         ELSE Return(<<FallbackSleep>>)
    ELSE Return(<<>>)

\* _check_rate_limit: the sleeps it takes, or the ValueError of int() on a
\* header value that is no integer literal
check_rate_limit(hdrs, t) ==
    IF REMAINING \notin DOMAIN hdrs THEN Return(<<>>)
    ELSE IF IntRaises(hdrs[REMAINING]) THEN Raise("ValueError")
    ELSE IF int(hdrs[REMAINING]) < RateLimitBuffer
    THEN IF RESET \in DOMAIN hdrs /\ hdrs[RESET] # <<>>
         THEN IF IntRaises(hdrs[RESET]) THEN Raise("ValueError")
              ELSE LET reset_ts == int(hdrs[RESET])
                   IN Return(<<(IF reset_ts - t > 0 THEN reset_ts - t ELSE 0) + 1>>)
         ELSE Return(<<FallbackSleep>>)
    ELSE Return(<<>>)

\* whether _check_rate_limit gets to int(time.time())
ReadsClock(hdrs) ==
    /\ REMAINING \in DOMAIN hdrs
    /\ ~IntRaises(hdrs[REMAINING])
    /\ int(hdrs[REMAINING]) < RateLimitBuffer
    /\ RESET \in DOMAIN hdrs
    /\ hdrs[RESET] # <<>>
    /\ ~IntRaises(hdrs[RESET])

\* "Be nice to the API"
DelaySleep == IF delay > 0 THEN <<delay>> ELSE <<>>

\* a page request: the params sent, whether a response came back without
\* an exception, and the items of the response
Request(items) ==
    [after |-> current_after, before |-> before, limit |-> page_size,
     ok |-> TRUE, items |-> items]

\* the generator is started: current_after = after
FetchStart ==
    /\ fetchPc = "idle"
    /\ current_after' = after
    /\ fetchPc' = "loop"
    /\ UNCHANGED <<orchVars, pollVars, saveVars, parseVars, joinVars, libVars, archive,
                   inclusive, page_size, delay, after, before, requests,
                   yielded, headers, now, slept>>

\* while current_after < before: false
FetchLoopEnd ==
    /\ fetchPc = "loop"
    /\ ~(current_after < before)
    /\ fetchPc' = "done"
    /\ UNCHANGED <<orchVars, pollVars, saveVars, parseVars, joinVars, libVars, archive,
                   inclusive, page_size, delay, after, before, current_after,
                   requests, yielded, headers, now, slept>>

\* the items of the pages answered so far
Received ==
    Flatten([k \in 1..Len(requests) |->
                IF requests[k].ok THEN requests[k].items ELSE <<>>])

\* a non-empty page arrives and "yield from items" yields its first item:
\* the generator is suspended there until the caller asks for the next
FetchPage(hdrs) ==
    /\ fetchPc = "loop"
    /\ current_after < before
    /\ LET items == ServerPage(current_after, before, page_size)
       IN /\ items # <<>>
          /\ requests' = Append(requests, Request(items))
          /\ yielded' = Append(yielded, items[1])
    /\ headers' = hdrs
    /\ slept' = <<>>
    /\ fetchPc' = "yield"
    /\ UNCHANGED <<orchVars, pollVars, saveVars, parseVars, joinVars, libVars, archive,
                   inclusive, page_size, delay, after, before, current_after,
                   now>>

\* the caller asks for the next record and the page has one more
FetchYield ==
    /\ fetchPc = "yield"
    /\ Len(yielded) < Len(Received)
    /\ yielded' = Append(yielded, Received[Len(yielded) + 1])
    /\ UNCHANGED <<orchVars, pollVars, saveVars, parseVars, joinVars, libVars, archive,
                   inclusive, page_size, delay, after, before, current_after,
                   requests, headers, now, slept, fetchPc>>

\* the caller asks for the next record and the page is used up: advance the
\* cursor, check the rate limit, sleep the delay; a ValueError of
\* _check_rate_limit ends the generator
FetchAfterPage(t) ==
    /\ fetchPc = "yield"
    /\ Len(yielded) = Len(Received)
    /\ LET items == requests[Len(requests)].items
           last_timestamp ==
               Get(items[Len(items)], "created_utc", current_after)
           checked == check_rate_limit(headers, t)
       IN /\ current_after' = NextCursor(last_timestamp)
          /\ now' = IF ReadsClock(headers) THEN t ELSE now
          /\ IF checked.outcome = "raise"
             THEN /\ slept' = <<>>
                  /\ fetchPc' = "raised"
             ELSE /\ slept' = checked.value \o DelaySleep
                  /\ fetchPc' = "loop"
    /\ UNCHANGED <<orchVars, pollVars, saveVars, parseVars, joinVars, libVars, archive,
                   inclusive, page_size, delay, after, before, requests,
                   yielded, headers>>

\* the caller stops iterating: the generator stays suspended at its yield
\* and is closed
FetchClose ==
    /\ fetchPc = "yield"
    /\ fetchPc' = "closed"
    /\ UNCHANGED <<orchVars, pollVars, saveVars, parseVars, joinVars, libVars, archive,
                   inclusive, page_size, delay, after, before, current_after,
                   requests, yielded, headers, now, slept>>

FetchEmptyPageGoesOn(hdrs) ==
    /\ fetchPc = "loop"
    /\ current_after < before
    /\ ServerPage(current_after, before, page_size) = <<>>
    /\ requests' = Append(requests, Request(<<>>))
    /\ headers' = hdrs
    /\ slept' = <<>>
    /\ fetchPc' = "loop"
    /\ UNCHANGED <<orchVars, pollVars, saveVars, parseVars, joinVars, libVars, archive,
                   inclusive, page_size, delay, after, before, current_after,
                   yielded, now>>

\* "if not items: break"
FetchEmptyPage(hdrs) ==
    /\ fetchPc = "loop"
    /\ current_after < before
    /\ ServerPage(current_after, before, page_size) = <<>>
    /\ requests' = Append(requests, Request(<<>>))
    /\ headers' = hdrs
    /\ slept' = <<>>
    /\ fetchPc' = "done"
    /\ UNCHANGED <<orchVars, pollVars, saveVars, parseVars, joinVars, libVars, archive,
                   inclusive, page_size, delay, after, before, current_after,
                   yielded, now>>

\* session.get or raise_for_status raises: the generator ends with it
FetchFailRetry ==
    /\ fetchPc = "loop"
    /\ current_after < before
    /\ requests' = Append(requests, [Request(<<>>) EXCEPT !.ok = FALSE])
    /\ slept' = <<>>
    /\ fetchPc' = "loop"
    /\ UNCHANGED <<orchVars, pollVars, saveVars, parseVars, joinVars, libVars, archive,
                   inclusive, page_size, delay, after, before, current_after,
                   yielded, headers, now>>

FetchFail ==
    /\ fetchPc = "loop"
    /\ current_after < before
    /\ requests' = Append(requests, [Request(<<>>) EXCEPT !.ok = FALSE])
    /\ slept' = <<>>
    /\ fetchPc' = "raised"
    /\ UNCHANGED <<orchVars, pollVars, saveVars, parseVars, joinVars, libVars, archive,
                   inclusive, page_size, delay, after, before, current_after,
                   yielded, headers, now>>

IsAscending(sq) == \A i \in 1..(Len(sq) - 1) : sq[i] <= sq[i + 1]

InitFetch ==
    /\ InitOrchIdle
    /\ InitParseIdle
    /\ InitJoinIdle
    /\ InitLibIdle
    /\ archive \in {a \in SeqsUpTo(1..MaxTime, MaxRecords) : IsAscending(a)}
    /\ inclusive \in BOOLEAN
    /\ page_size \in 1..MaxPageSize
    /\ delay \in {0, 1}
    /\ after \in {0, 1}
    /\ before \in {MaxTime, MaxTime + 2}
    /\ current_after = 0
    /\ requests = <<>>
    /\ yielded = <<>>
    /\ headers = NoHeaders
    /\ now = 0
    /\ slept = <<>>
    /\ fetchPc = "idle"

\* the steps of the generator while the caller keeps iterating
FetchStep ==
    \/ FetchStart
    \/ FetchLoopEnd
    \/ \E hdrs \in HeaderSets : FetchPage(hdrs)
    \/ FetchYield
    \/ \E t \in Times : FetchAfterPage(t)
    \/ \E hdrs \in HeaderSets : FetchEmptyPage(hdrs)
    \/ FetchFail

NextFetch ==
    \/ FetchStep
    \/ FetchClose

SpecFetch == InitFetch /\ [][NextFetch]_vars

\* C10: within one fetch the cursor sent as after strictly increases from page
\* to page, each next cursor being the previous page's last record timestamp
\* plus one, and no record is yielded twice (the archive is stable and serves
\* sorted pages of the requested range).
C10_CursorAdvancesPastEveryPage ==
    /\ \A k \in 2..Len(requests) :
           LET prev == requests[k - 1].items
           IN /\ requests[k].after = prev[Len(prev)].created_utc + 1
              /\ requests[k].after > requests[k - 1].after
    /\ \A i, j \in 1..Len(yielded) : i # j => yielded[i].id # yielded[j].id

C10_Witness ==
    /\ fetchPc = "done"
    /\ Len(requests) >= 3
    /\ Len(requests[2].items) >= 1
    /\ Len(yielded) >= 2

\* the caller iterates the generator to its end
NextFetchAll == FetchStep

SpecFetchAll == InitFetch /\ [][NextFetchAll]_vars /\ WF_vars(NextFetchAll)

FetchEnded == fetchPc \in {"done", "raised"}

C11_Safety ==
    /\ \A k \in 1..Len(requests) :
           /\ requests[k].after < requests[k].before
           /\ (requests[k].ok /\ requests[k].items = <<>>) =>
                  (k = Len(requests) /\ fetchPc = "done")
    /\ Len(yielded) <= Len(archive)

\* C11: a fetch yields finitely many records and ends: every request is sent
\* with a cursor below before, a request answered with an empty page is the
\* last request of the fetch, the records yielded are no more than the
\* archive holds, and the generator reaches its end.
C11_FetchTerminates == []C11_Safety /\ <>FetchEnded

C11_Witness ==
    /\ fetchPc = "done"
    /\ Len(requests) >= 2
    /\ requests[Len(requests)].ok
    /\ requests[Len(requests)].items = <<>>
    /\ Len(yielded) >= 1

\* C12: a page request that fails ends the fetch with the exception: it is the
\* last request of the fetch (no retry, no later page), and what was yielded
\* is exactly the items of the pages answered before it.
C12_FailurePropagates ==
    \A k \in 1..Len(requests) :
        ~requests[k].ok =>
            /\ k = Len(requests)
            /\ fetchPc = "raised"
            /\ yielded = Received

C12_Witness ==
    /\ fetchPc = "raised"
    /\ ~requests[Len(requests)].ok
    /\ Len(requests) >= 2
    /\ Len(yielded) >= 1
    /\ current_after < before


\* ------------------------------------ pipeline/processors.py CommentPipeline
MaxSteps == 3
MaxProcessed == 2
MaxValue == 1

\* Optional values: None, or a value
None == NoDict
Some(x) == [v |-> x]

\* the step functions registered here: two that transform the record, one
\* that rejects some records
StepFns == {"incr", "double", "small"}

Apply(fn, c) ==
    CASE fn = "incr" -> Some(c.v + 1)
      [] fn = "double" -> Some(2 * c.v)
      [] OTHER -> IF c.v <= 1 THEN c ELSE None

\* add_step's arguments: name=None gives fn.__name__
StepArgs ==
    {[fn |-> f, name |-> f] : f \in StepFns} \cup {[fn |-> "incr", name |-> "small"]}

RejectionKeyAccepted(step_name) == "accepted"

RejectionKey(step_name) == "rejected_" \o step_name

Incremented(st, key) == [st EXCEPT ![key] = @ + 1]

\* the loop of process from stage i on: the stages run with their inputs, the
\* return value and the stats
RECURSIVE RunSteps(_, _, _, _)
RunSteps(i, current, ran, st) ==
    IF i > Len(steps)
    THEN [ran |-> ran, ret |-> current, stats |-> Incremented(st, "accepted")]
    ELSE LET res == Apply(steps[i].fn, current)
             ran2 == Append(ran, [step |-> i, input |-> current])
         IN IF res = None
            THEN [ran |-> ran2, ret |-> None,
                  stats |-> Incremented(st, RejectionKey(steps[i].name))]
            ELSE RunSteps(i + 1, res, ran2, st)

add_step(a) ==
    /\ Len(steps) < MaxSteps
    /\ steps' = Append(steps, [name |-> a.name, fn |-> a.fn])
    /\ stats' = IF RejectionKey(a.name) \in DOMAIN stats THEN stats
                ELSE stats @@ (RejectionKey(a.name) :> 0)
    /\ UNCHANGED <<orchVars, pollVars, saveVars, parseVars, joinVars,
                   fetchVars, callVars, processed>>

process(comment) ==
    /\ stats["total"] < MaxProcessed
    /\ LET r == RunSteps(1, comment, <<>>, Incremented(stats, "total"))
       IN /\ stats' = r.stats
          /\ processed' = [comment |-> comment, steps |-> steps,
                           before |-> stats, ran |-> r.ran, ret |-> r.ret,
                           after |-> r.stats]
    /\ UNCHANGED <<orchVars, pollVars, saveVars, parseVars, joinVars,
                   fetchVars, callVars, steps>>

reset_stats ==
    /\ stats' = [k \in DOMAIN stats |-> 0]
    /\ UNCHANGED <<orchVars, pollVars, saveVars, parseVars, joinVars,
                   fetchVars, callVars, steps, processed>>

\* a reference to the pipeline's own dict, and what it reads now
Alias == [ref |-> "_stats"]
Deref(d) == IF d = Alias THEN stats ELSE d.copy

\* the mutant of StatsProperty for C29: the dict itself is handed out
StatsPropertyAlias(st) == Alias

\* the stats property: return self._stats.copy()
StatsProperty(st) == [copy |-> st]

\* the caller reads pipeline.stats and keeps what it got; taken is the
\* content at the moment of the read
read_stats ==
    /\ value' = [ret |-> StatsProperty(stats), taken |-> stats]
    /\ UNCHANGED <<orchVars, pollVars, saveVars, parseVars, joinVars,
                   fetchVars, pipeVars, args>>

InitPipe ==
    /\ InitOrchIdle
    /\ InitParseIdle
    /\ InitJoinIdle
    /\ InitFetchIdle
    /\ InitCallIdle
    /\ InitPipeIdle

NextPipe ==
    \/ \E a \in StepArgs : add_step(a)
    \/ \E x \in 0..MaxValue : process(Some(x))
    \/ reset_stats
    \/ read_stats

SpecPipe == InitPipe /\ [][NextPipe]_vars

\* the stats a call of process must leave: the stats before it with total and
\* one more counter incremented
OneMore(st, key) ==
    [k \in DOMAIN st |->
        st[k] + (IF k = "total" THEN 1 ELSE 0) + (IF k = key THEN 1 ELSE 0)]

\* C13: process runs the stages in registration order, each on the output of
\* the one before; the first stage that rejects is the last one run, its
\* rejection counter (and total) is incremented by one and None is returned;
\* a record that passes every stage is returned transformed and increments
\* only accepted (and total).
C13_StagesRunInOrder ==
    processed # NoDict =>
        LET p == processed
            n == Len(p.ran)
            out(j) == Apply(p.steps[j].fn, p.ran[j].input)
        IN /\ n <= Len(p.steps)
           /\ \A j \in 1..n :
                  /\ p.ran[j].step = j
                  /\ p.ran[j].input = IF j = 1 THEN p.comment ELSE out(j - 1)
                  /\ j < n => out(j) # None
           /\ IF n > 0 /\ out(n) = None
              THEN /\ p.ret = None
                   /\ p.after = OneMore(p.before, "rejected_" \o p.steps[n].name)
              ELSE /\ n = Len(p.steps)
                   /\ p.ret = (IF n = 0 THEN p.comment ELSE out(n))
                   /\ p.after = OneMore(p.before, "accepted")

C13_Witness ==
    /\ processed # NoDict
    /\ Len(processed.steps) = 3
    /\ Len(processed.ran) = 2
    /\ processed.ret = None
    /\ processed.ran[2].input # processed.comment


\* ------------------------------------- pipeline/aggregation.py resolve_player
MaxMentioned == 2

\* the characters of code point below 256 that str.lower() changes, A to Z
\* and the Latin-1 capitals U+00C0 to U+00DE without the multiplication
\* sign, and what it makes of them
UpperChars ==
    <<"A", "B", "C", "D", "E", "F", "G", "H", "I", "J", "K", "L", "M", "N",
      "O", "P", "Q", "R", "S", "T", "U", "V", "W", "X", "Y", "Z", "À", "Á",
      "Â", "Ã", "Ä", "Å", "Æ", "Ç", "È", "É", "Ê", "Ë", "Ì", "Í", "Î", "Ï",
      "Ð", "Ñ", "Ò", "Ó", "Ô", "Õ", "Ö", "Ø", "Ù", "Ú", "Û", "Ü", "Ý", "Þ">>
LowerChars ==
    <<"a", "b", "c", "d", "e", "f", "g", "h", "i", "j", "k", "l", "m", "n",
      "o", "p", "q", "r", "s", "t", "u", "v", "w", "x", "y", "z", "à", "á",
      "â", "ã", "ä", "å", "æ", "ç", "è", "é", "ê", "ë", "ì", "í", "î", "ï",
      "ð", "ñ", "ò", "ó", "ô", "õ", "ö", "ø", "ù", "ú", "û", "ü", "ý", "þ">>

\* str.lower(), on strings as sequences of characters
LowerChar(ch) ==
    IF \E i \in 1..Len(UpperChars) : UpperChars[i] = ch
    THEN LowerChars[CHOOSE i \in 1..Len(UpperChars) : UpperChars[i] = ch]
    ELSE ch

Lower(str) == [i \in 1..Len(str) |-> LowerChar(str[i])]

\* config/players.yaml: canonical player names and their aliases
PlayerConfig ==
    [name \in {<<"L", "J">>, <<"N", "J">>} |->
        IF name = <<"L", "J">> THEN {<<"K", "i", "n", "g">>, <<"l", "b", "j">>}
        ELSE {<<"j", "o", "k">>}]

\* build_alias_to_player_map: lowercase alias -> canonical name, the
\* lowercased canonical names among the keys
build_alias_to_player_map ==
    LET keysOf(name) == {Lower(name)} \cup {Lower(a) : a \in PlayerConfig[name]}
        allKeys == UNION {keysOf(name) : name \in DOMAIN PlayerConfig}
    IN [k \in allKeys |->
           CHOOSE name \in DOMAIN PlayerConfig : k \in keysOf(name)]

Values(d) == {d[k] : k \in DOMAIN d}

\* the names a record or a model response may carry
PlayerNames ==
    {<<"L", "J">>, <<"N", "J">>, <<"l", "j">>, <<"k", "i", "n", "g">>,
     <<"J", "o", "k">>, <<"x">>}

resolve_playerFirstMentioned(mentioned_players, sentiment_player, alias_map) ==
    IF mentioned_players = None \/ mentioned_players.v = <<>> THEN None
    ELSE Some(Get(alias_map, Lower(mentioned_players.v[1]),
                  mentioned_players.v[1]))

resolve_player(mentioned_players, sentiment_player, alias_map) ==
    IF mentioned_players = None \/ mentioned_players.v = <<>> THEN None
    ELSE IF Len(mentioned_players.v) = 1
    THEN LET player == mentioned_players.v[1]
         IN Some(Get(alias_map, Lower(player), player))
    ELSE IF sentiment_player = None \/ sentiment_player.v = <<>> THEN None
    ELSE IF sentiment_player.v \in Values(alias_map) THEN sentiment_player
    ELSE IF Lower(sentiment_player.v) \in DOMAIN alias_map
    THEN Some(alias_map[Lower(sentiment_player.v)])
    ELSE None

\* a pure function is called once: value holds what it returned
Returned(fn) == args # NoDict /\ args.fn = fn /\ value # NoDict

InitResolve ==
    /\ InitOrchIdle
    /\ InitParseIdle
    /\ InitJoinIdle
    /\ InitFetchIdle
    /\ InitPipeIdle
    /\ \E m \in {None} \cup {Some(l) : l \in SeqsUpTo(PlayerNames, MaxMentioned)},
          sp \in {None, Some(<<>>)} \cup {Some(n) : n \in PlayerNames} :
          args = [fn |-> "resolve_player", mentioned_players |-> m,
                  sentiment_player |-> sp]
    /\ value = NoDict

CallResolve ==
    /\ args.fn = "resolve_player"
    /\ value = NoDict
    /\ value' = [ret |-> resolve_player(args.mentioned_players,
                                        args.sentiment_player,
                                        build_alias_to_player_map)]
    /\ UNCHANGED <<orchVars, pollVars, saveVars, parseVars, joinVars,
                   fetchVars, pipeVars, args>>

SpecResolve == InitResolve /\ [][CallResolve]_vars

\* C14: resolve_player returns null for no (or null) mentioned entities; for
\* exactly one, that entity normalised through the alias map whatever the
\* disambiguation field holds; for two or more, the disambiguation field if
\* it is a canonical name, else its normalisation through the alias map, and
\* null when the field is null, empty or unrecognised.
C14_ResolveRule ==
    Returned("resolve_player") =>
        LET m == args.mentioned_players
            sp == args.sentiment_player
            canonical == DOMAIN PlayerConfig
            norm(n) == IF \E c \in canonical :
                              Lower(n) \in {Lower(c)} \cup
                                  {Lower(a) : a \in PlayerConfig[c]}
                       THEN Some(CHOOSE c \in canonical :
                              Lower(n) \in {Lower(c)} \cup
                                  {Lower(a) : a \in PlayerConfig[c]})
                       ELSE None
        IN IF m = None \/ m.v = <<>> THEN value.ret = None
           ELSE IF Len(m.v) = 1
           THEN value.ret = (IF norm(m.v[1]) = None THEN Some(m.v[1])
                             ELSE norm(m.v[1]))
           ELSE IF sp = None \/ sp.v = <<>> THEN value.ret = None
           ELSE IF sp.v \in canonical THEN value.ret = sp
           ELSE value.ret = norm(sp.v)

C14_Witness ==
    /\ Returned("resolve_player")
    /\ args.mentioned_players # None
    /\ Len(args.mentioned_players.v) = 2
    /\ args.sentiment_player = Some(<<"J", "o", "k">>)
    /\ value.ret = Some(<<"N", "J">>)


\* ---------------------------- pipeline/aggregation.py extract_team_from_flair
MaxAliases == 3
MaxTagLen == 3

\* an alias map is a dict: its items in insertion order, the keys distinct
\* and lowercase (build_alias_to_team_map lowercases them)
TeamAliases == {<<"a">>, <<"b">>, <<"a", "b">>, <<"b", "a">>}
Teams == {"East", "West"}

AliasMaps ==
    {d \in SeqsUpTo([alias : TeamAliases, team : Teams], MaxAliases) :
        \A i, j \in 1..Len(d) : i # j => d[i].alias # d[j].alias}

FlairTexts == SeqsUpTo({"a", "b", "B"}, MaxTagLen)

UnsortedKeys(d) == [i \in 1..Len(d) |-> d[i].alias]

\* sorted(alias_to_team, key=len, reverse=True): the keys, longest first,
\* keys of one length in the dict's order
RECURSIVE SortedLongestFirst(_)
SortedLongestFirst(d) ==
    IF d = <<>> THEN <<>>
    ELSE LET first == CHOOSE i \in 1..Len(d) :
                          /\ \A j \in 1..Len(d) : Len(d[j].alias) <= Len(d[i].alias)
                          /\ \A j \in 1..(i - 1) : Len(d[j].alias) < Len(d[i].alias)
         IN <<d[first].alias>>
            \o SortedLongestFirst(SubSeq(d, 1, first - 1)
                                  \o SubSeq(d, first + 1, Len(d)))

\* d[alias]
TeamOf(d, alias) == (CHOOSE e \in {d[i] : i \in 1..Len(d)} : e.alias = alias).team

extract_team_from_flair(flair_text, alias_to_team) ==
    IF flair_text = None \/ flair_text.v = <<>> THEN None
    ELSE LET flair_lower == Lower(flair_text.v)
             aliases == SortedLongestFirst(alias_to_team)
             hits == SelectSeq(aliases, LAMBDA alias : HasSub(flair_lower, alias))
         IN IF hits = <<>> THEN None
            ELSE Some(TeamOf(alias_to_team, hits[1]))

InitFlair ==
    /\ InitOrchIdle
    /\ InitParseIdle
    /\ InitJoinIdle
    /\ InitFetchIdle
    /\ InitPipeIdle
    /\ \E t \in {None} \cup {Some(f) : f \in FlairTexts}, d \in AliasMaps :
          args = [fn |-> "extract_team_from_flair", flair_text |-> t,
                  alias_to_team |-> d]
    /\ value = NoDict

CallFlair ==
    /\ args.fn = "extract_team_from_flair"
    /\ value = NoDict
    /\ value' = [ret |-> extract_team_from_flair(args.flair_text,
                                                 args.alias_to_team)]
    /\ UNCHANGED <<orchVars, pollVars, saveVars, parseVars, joinVars,
                   fetchVars, pipeVars, args>>

SpecFlair == InitFlair /\ [][CallFlair]_vars

\* the aliases of the map that the lowercased tag contains, as positions
ContainedAliases ==
    {i \in 1..Len(args.alias_to_team) :
        /\ args.flair_text # None
        /\ HasSub(Lower(args.flair_text.v), args.alias_to_team[i].alias)}

EmptyTagsGiveNull ==
    /\ (args.flair_text = None \/ args.flair_text.v = <<>>) => value.ret = None
    /\ ContainedAliases = {} => value.ret = None

\* C15 as stated: whenever the tag contains an alias that itself contains a
\* shorter alias of another category, the result is the category of the
\* longer alias, for every alias map and every such tag; empty and null tags
\* and tags without an alias give null.
C15_LongerAliasWins ==
    Returned("extract_team_from_flair") =>
        LET d == args.alias_to_team
        IN /\ EmptyTagsGiveNull
           /\ \A l \in ContainedAliases, k \in 1..Len(d) :
                  (/\ Len(d[k].alias) < Len(d[l].alias)
                   /\ HasSub(d[l].alias, d[k].alias)
                   /\ d[k].team # d[l].team)
                  => value.ret = Some(d[l].team)

\* C15 amended: the result is the category of a longest alias the lowercased
\* tag contains, the first of them in the map's order; so an alias contained
\* in a longer alias of the tag never decides, and the longer alias does
\* unless the tag holds another alias at least as long. Empty and null tags
\* and tags without an alias give null.
C15_LongestContainedAliasWins ==
    Returned("extract_team_from_flair") =>
        LET d == args.alias_to_team
        IN /\ EmptyTagsGiveNull
           /\ ContainedAliases # {} =>
                  \E l \in ContainedAliases :
                      /\ value.ret = Some(d[l].team)
                      /\ \A k \in ContainedAliases :
                             \/ Len(d[k].alias) < Len(d[l].alias)
                             \/ (Len(d[k].alias) = Len(d[l].alias) /\ l <= k)

C15_Witness ==
    /\ Returned("extract_team_from_flair")
    /\ args.flair_text = Some(<<"a", "B">>)
    /\ args.alias_to_team = <<[alias |-> <<"b">>, team |-> "West"],
                              [alias |-> <<"a", "b">>, team |-> "East"]>>
    /\ value.ret = Some("East")

\* ------------------------------------------------------------------
\* compute_metrics (pipeline/aggregation.py): group-by aggregation.
\* Rates are kept as integers in ten-thousandths (0.4 is 4000).
\* ------------------------------------------------------------------
MaxRows == 5
MaxKeyedRows == 3

SentimentLabels == {"neg", "pos", "neu"}
\* "error" is the label of a result that could not be parsed
Sentiments == SentimentLabels \cup {"error"}
MetricPlayers == {"A", "B"}
Weeks == {1, 2}

Rows1 == [attributed_player : MetricPlayers, week : {1}, sentiment : SentimentLabels]
Rows2 ==
    [attributed_player : MetricPlayers, week : Weeks, sentiment : Sentiments]

GroupCols == {<<"attributed_player">>, <<"attributed_player", "week">>}

Frames(cols) ==
    IF Len(cols) = 1 THEN SeqsUpTo(Rows1, MaxRows)
                     ELSE SeqsUpTo(Rows2, MaxKeyedRows)

KeyOf(r, cols) == [i \in 1..Len(cols) |-> r[cols[i]]]

Abs(x) == IF x < 0 THEN -x ELSE x

\* the mutant of Round4: cut after the fourth decimal
Trunc4(n, d) == (n * 10000) \div d

\* Float64 arithmetic on naturals: a double is m * 2^e, m given by its 53
\* bits, most significant first
RECURSIVE Pow2(_)
Pow2(k) == IF k = 0 THEN 1 ELSE 2 * Pow2(k - 1)

RECURSIVE BitsOf(_)
BitsOf(n) == IF n < 2 THEN <<n>> ELSE Append(BitsOf(n \div 2), n % 2)

RECURSIVE BitsValue(_)
BitsValue(b) ==
    IF b = <<>> THEN 0
    ELSE 2 * BitsValue(SubSeq(b, 1, Len(b) - 1)) + b[Len(b)]

RECURSIVE BitsInc(_)
BitsInc(b) ==
    IF b = <<>> THEN <<1>>
    ELSE IF b[Len(b)] = 0 THEN [b EXCEPT ![Len(b)] = 1]
    ELSE Append(BitsInc(SubSeq(b, 1, Len(b) - 1)), 0)

\* round to nearest, ties to even: the bits b (54 or more) cut to 53, where
\* sticky says that the exact value has something below b's last bit; e is
\* the number of bits dropped
RoundBits(b, sticky) ==
    LET kept == SubSeq(b, 1, 53)
        up == /\ b[54] = 1
              /\ \/ sticky
                 \/ \E i \in 55..Len(b) : b[i] = 1
                 \/ b[53] = 1
    IN IF ~up THEN [m |-> kept, e |-> Len(b) - 53]
       ELSE IF \A i \in 1..53 : b[i] = 1
       THEN [m |-> [i \in 1..53 |-> IF i = 1 THEN 1 ELSE 0], e |-> Len(b) - 52]
       ELSE [m |-> BitsInc(kept), e |-> Len(b) - 53]

RECURSIVE ScaleUp(_, _)
\* the least u with a * 2^u >= d
ScaleUp(a, d) == IF a >= d THEN 0 ELSE 1 + ScaleUp(2 * a, d)

RECURSIVE ScaleDown(_, _)
\* the largest t with d * 2^t <= a
ScaleDown(a, d) == IF 2 * d > a THEN 0 ELSE 1 + ScaleDown(a, 2 * d)

RECURSIVE DivBits(_, _, _, _)
\* the next k bits of r / D for r < D, after the bits acc, and whether a
\* remainder is left
DivBits(r, D, k, acc) ==
    IF k = 0 THEN [bits |-> acc, sticky |-> r # 0]
    ELSE IF 2 * r >= D THEN DivBits(2 * r - D, D, k - 1, Append(acc, 1))
    ELSE DivBits(2 * r, D, k - 1, Append(acc, 0))

\* a / d as a double, for naturals a > 0 and d > 0
FloatDivide(a, d) ==
    LET t == IF a >= d THEN ScaleDown(a, d) ELSE -ScaleUp(a, d)
        q == IF a >= d THEN DivBits(a - d * Pow2(t), d * Pow2(t), 53, <<1>>)
             ELSE DivBits(a * Pow2(-t) - d, d, 53, <<1>>)
        r == RoundBits(q.bits, q.sticky)
    IN [m |-> r.m, e |-> t - 53 + r.e]

RECURSIVE MulBits(_, _, _, _)
\* the bits of b * k + carry * 2^Len(b), before the bits acc
MulBits(b, k, carry, acc) ==
    IF b = <<>> THEN (IF carry = 0 THEN acc ELSE BitsOf(carry) \o acc)
    ELSE MulBits(SubSeq(b, 1, Len(b) - 1), k,
                 (b[Len(b)] * k + carry) \div 2,
                 <<(b[Len(b)] * k + carry) % 2>> \o acc)

\* x * k as a double, for a double x and a natural k >= 2
FloatTimes(x, k) ==
    LET r == RoundBits(MulBits(x.m, k, 0, <<>>), FALSE)
    IN [m |-> r.m, e |-> x.e + r.e]

\* f64::round of a double x >= 0: to the nearest integer, halves away from
\* zero
FloatRound(x) ==
    IF x.e >= 0 THEN BitsValue(x.m) * Pow2(x.e)
    ELSE IF -x.e > 53 THEN 0
    ELSE IF -x.e = 53 THEN 1
    ELSE BitsValue(SubSeq(x.m, 1, 53 + x.e)) + x.m[54 + x.e]

\* (n / d).round(4) of a Float64 column, in ten-thousandths: the quotient as
\* a double, times 10.0^4 as a double, rounded to an integer with halves away
\* from zero. Off a tie the two roundings of the doubles cannot move the
\* product across the half (the operands are below 2^31), so the exact
\* quotient decides; on a tie (20000 n / d an odd integer) the doubles decide:
\* 57 / 800 gives 0.0712, 1 / 160 gives 0.0063.
Round4(n, d) ==
    LET a == Abs(n)
        q == IF (20000 * a) % d = 0 /\ ((20000 * a) \div d) % 2 = 1
             THEN FloatRound(FloatTimes(FloatDivide(a, d), 10000))
             ELSE (20000 * a + d) \div (2 * d)
    IN IF n < 0 THEN -q ELSE q

ZeroAgg == [neg_count |-> 0, pos_count |-> 0, neu_count |-> 0,
            comment_count |-> 0]

AddTo(a, s) ==
    [neg_count |-> a.neg_count + (IF s = "neg" THEN 1 ELSE 0),
     pos_count |-> a.pos_count + (IF s = "pos" THEN 1 ELSE 0),
     neu_count |-> a.neu_count + (IF s = "neu" THEN 1 ELSE 0),
     comment_count |-> a.comment_count + 1]

\* df.group_by(group_cols).agg(...): one pass over the rows, one
\* accumulator per key met
RECURSIVE GroupAgg(_, _, _, _)
GroupAgg(df, cols, i, acc) ==
    IF i > Len(df) THEN acc
    ELSE LET k == KeyOf(df[i], cols)
             old == IF k \in DOMAIN acc THEN acc[k] ELSE ZeroAgg
         IN GroupAgg(df, cols, i + 1,
                     [x \in DOMAIN acc \cup {k} |->
                         IF x = k THEN AddTo(old, df[i].sentiment)
                                  ELSE acc[x]])

EmptyAgg == [k \in {} |-> ZeroAgg]

MetricsRow(k, a) ==
    [key |-> k,
     neg_count |-> a.neg_count, pos_count |-> a.pos_count,
     neu_count |-> a.neu_count, comment_count |-> a.comment_count,
     neg_rate |-> Round4(a.neg_count, a.comment_count),
     pos_rate |-> Round4(a.pos_count, a.comment_count),
     net_sentiment |-> Round4(a.pos_count - a.neg_count, a.comment_count),
     polarization |-> Round4(a.pos_count + a.neg_count, a.comment_count)]

\* the list of dicts, as the set of its rows (group_by gives no row order)
compute_metrics(df, group_cols) ==
    LET g == GroupAgg(df, group_cols, 1, EmptyAgg)
    IN {MetricsRow(k, g[k]) : k \in DOMAIN g}

InitMetrics ==
    /\ InitOrchIdle /\ InitParseIdle /\ InitJoinIdle /\ InitFetchIdle
    /\ InitPipeIdle
    /\ \E cols \in GroupCols : \E df \in Frames(cols) :
           args = [fn |-> "compute_metrics", df |-> df, group_cols |-> cols]
    /\ value = NoDict

CallMetrics ==
    /\ args.fn = "compute_metrics"
    /\ value = NoDict
    /\ value' = [ret |-> compute_metrics(args.df, args.group_cols)]
    /\ UNCHANGED <<orchVars, pollVars, saveVars, parseVars, joinVars,
                   fetchVars, pipeVars, args>>

SpecMetrics == InitMetrics /\ [][CallMetrics]_vars

\* positions of the records of group k, and those among them with label s
GroupOf(k) ==
    {i \in 1..Len(args.df) : KeyOf(args.df[i], args.group_cols) = k}

Labelled(k, s) == {i \in GroupOf(k) : args.df[i].sentiment = s}

\* r is n/d rounded to four decimals: within half a ten-thousandth
Rounded4(r, n, d) ==
    /\ 2 * (r * d - n * 10000) <= d
    /\ 2 * (n * 10000 - r * d) <= d

SwapAt(df, i) ==
    [j \in 1..Len(df) |-> IF j = i THEN df[i + 1]
                          ELSE IF j = i + 1 THEN df[i] ELSE df[j]]

\* C16: compute_metrics returns exactly one row per key value present in the
\* records; the row's neg, pos and neu counts are the numbers of the group's
\* records with each label and comment_count is the group's size; the four
\* rates are neg/total, pos/total, (pos - neg)/total and (pos + neg)/total
\* rounded to four decimals; exchanging two neighbouring input records
\* changes no row, and the row of a group is the row computed from that
\* group's records alone.
C16_MetricsPerGroup ==
    Returned("compute_metrics") =>
        LET df == args.df
            cols == args.group_cols
            present == {KeyOf(df[i], cols) : i \in 1..Len(df)}
        IN /\ {r.key : r \in value.ret} = present
           /\ Cardinality(value.ret) = Cardinality(present)
           /\ \A r \in value.ret :
                  LET n == r.comment_count
                  IN /\ r.neg_count = Cardinality(Labelled(r.key, "neg"))
                     /\ r.pos_count = Cardinality(Labelled(r.key, "pos"))
                     /\ r.neu_count = Cardinality(Labelled(r.key, "neu"))
                     /\ n = Cardinality(GroupOf(r.key))
                     /\ Rounded4(r.neg_rate, r.neg_count, n)
                     /\ Rounded4(r.pos_rate, r.pos_count, n)
                     /\ Rounded4(r.net_sentiment,
                                 r.pos_count - r.neg_count, n)
                     /\ Rounded4(r.polarization,
                                 r.pos_count + r.neg_count, n)
                     /\ compute_metrics(
                            SelectSeq(df, LAMBDA x : KeyOf(x, cols) = r.key),
                            cols) = {r}
           /\ \A i \in 1..(Len(df) - 1) :
                  compute_metrics(SwapAt(df, i), cols) = value.ret

\* 2 neg / 1 pos / 2 neu for one player next to nothing else gives
\* 0.4, 0.2, -0.2, 0.6
C16_Witness ==
    /\ Returned("compute_metrics")
    /\ \E r \in value.ret :
           /\ r.neg_count = 2 /\ r.pos_count = 1 /\ r.neu_count = 2
           /\ r.comment_count = 5
           /\ r.neg_rate = 4000 /\ r.pos_rate = 2000
           /\ r.net_sentiment = -2000 /\ r.polarization = 6000

\* ------------------------------------------------------------------
\* Bar race helpers (pipeline/aggregation.py): compute_cumulative_metrics,
\* mask_below_threshold, pivot_bar_race_wide.
\* A frame is the set of its rows; a date is a day number counted from
\* 2024-09-30; a rate is Some(ten-thousandths), NaN or None (null).
\* ------------------------------------------------------------------
MaxWeeks == 3

WeekTable == <<"2024-10-07 00:00:00", "2024-10-14 00:00:00",
               "2024-10-21 00:00:00", "2024-10-28 00:00:00",
               "2024-11-04 00:00:00", "2024-11-11 00:00:00">>

WeekStrs == {WeekTable[i] : i \in 1..MaxWeeks}

\* pl.col("week").str.to_datetime().cast(pl.Date)
ToDate(s) == 7 * (CHOOSE i \in 1..Len(WeekTable) : WeekTable[i] = s)

\* the weekly counts a player_temporal row may carry
WeekCounts == {[neg_count |-> 5, comment_count |-> 50],
               [neg_count |-> 10, comment_count |-> 100],
               [neg_count |-> 1, comment_count |-> 3]}

TemporalCells == MetricPlayers \X WeekStrs

\* player_temporal as compute_metrics leaves it in aggregates.json: at most
\* one row for a player and a week, not empty
PlayerTemporals ==
    {{[attributed_player |-> c[1], week |-> c[2],
       neg_count |-> f[c].v.neg_count,
       comment_count |-> f[c].v.comment_count] :
          c \in {x \in TemporalCells : f[x] # None}} :
        f \in [TemporalCells -> {None} \cup {Some(k) : k \in WeekCounts}]}
    \ {{}}

NaN == [nan |-> TRUE]

SetMax(S) == CHOOSE x \in S : \A y \in S : y <= x

\* (n / d).round(4) on Float64 columns: 0 / 0 is NaN
Rate4(n, d) == IF d = 0 THEN NaN ELSE Some(Round4(n, d))

WithDates(player_temporal) ==
    {[r EXCEPT !.week = ToDate(r.week)] : r \in player_temporal}

stub_week(df) == SetMax({r.week : r \in df})

\* the mutant of NotStub: the trailing week stays
KeepStub(df) == df

\* df.filter(pl.col("week") != stub_week)
NotStub(df) == {r \in df : r.week # stub_week(df)}

players(df) == {r.attributed_player : r \in df}

weeks(df) == {r.week : r \in df}

\* grid.join(df, how="left") with fill_null(0): the counts of a grid cell
Filled(df, p, w) ==
    IF \E r \in df : r.attributed_player = p /\ r.week = w
    THEN LET r == CHOOSE x \in df : x.attributed_player = p /\ x.week = w
         IN [neg_count |-> r.neg_count, comment_count |-> r.comment_count]
    ELSE [neg_count |-> 0, comment_count |-> 0]

\* the dates of a set in ascending order
RECURSIVE Ascending(_)
Ascending(S) ==
    IF S = {} THEN <<>>
    ELSE LET lo == CHOOSE x \in S : \A y \in S : x <= y
         IN <<lo>> \o Ascending(S \ {lo})

\* cum_sum().over("attributed_player") after sort("attributed_player",
\* "week"): the running sums of player p over the first i weeks
RECURSIVE CumSums(_, _, _, _)
CumSums(df, p, ws, i) ==
    IF i = 0 THEN [neg_count |-> 0, comment_count |-> 0]
    ELSE LET prev == CumSums(df, p, ws, i - 1)
             here == Filled(df, p, ws[i])
         IN [neg_count |-> prev.neg_count + here.neg_count,
             comment_count |-> prev.comment_count + here.comment_count]

compute_cumulative_metrics(player_temporal) ==
    LET df == NotStub(WithDates(player_temporal))
        ws == Ascending(weeks(df))
    IN {LET c == CumSums(df, p, ws, i)
        IN [attributed_player |-> p, week |-> ws[i],
            cum_neg |-> c.neg_count, cum_total |-> c.comment_count,
            cum_neg_rate |-> Rate4(c.neg_count, c.comment_count)] :
           p \in players(df), i \in 1..Len(ws)}

InitCumulative ==
    /\ InitOrchIdle /\ InitParseIdle /\ InitJoinIdle /\ InitFetchIdle
    /\ InitPipeIdle
    /\ \E pt \in PlayerTemporals :
           args = [fn |-> "compute_cumulative_metrics",
                   player_temporal |-> pt]
    /\ value = NoDict

CallCumulative ==
    /\ args.fn = "compute_cumulative_metrics"
    /\ value = NoDict
    /\ value' = [ret |-> compute_cumulative_metrics(args.player_temporal)]
    /\ UNCHANGED <<orchVars, pollVars, saveVars, parseVars, joinVars,
                   fetchVars, pipeVars, args>>

SpecCumulative == InitCumulative /\ [][CallCumulative]_vars

RECURSIVE SumOf(_, _)
SumOf(rows, col) ==
    IF rows = {} THEN 0
    ELSE LET r == CHOOSE x \in rows : TRUE
         IN r[col] + SumOf(rows \ {r}, col)

\* the input rows outside the maximum period
RemainingRows ==
    LET df == WithDates(args.player_temporal)
    IN {r \in df : \E x \in df : x.week > r.week}

\* C17: compute_cumulative_metrics leaves out the maximum period present and
\* returns exactly one row for every pair of an entity and a period of the
\* remaining rows; a row's cum_neg and cum_total are the sums of the entity's
\* neg_count and comment_count over the remaining periods up to and
\* including the row's (a pair without an input row adds nothing); and
\* cum_neg_rate is cum_neg / cum_total rounded to four decimals, the float
\* quotient 0 / 0 of an entity not yet seen being NaN.
C17_CumulativeGrid ==
    Returned("compute_cumulative_metrics") =>
        LET rem == RemainingRows
            ents == {r.attributed_player : r \in rem}
            pers == {r.week : r \in rem}
            maxw == SetMax({ToDate(r.week) : r \in args.player_temporal})
        IN /\ {<<r.attributed_player, r.week>> : r \in value.ret}
                  = ents \X pers
           /\ Cardinality(value.ret) = Cardinality(ents) * Cardinality(pers)
           /\ \A r \in value.ret :
                  LET upto == {x \in rem :
                                  /\ x.attributed_player = r.attributed_player
                                  /\ x.week <= r.week}
                  IN /\ r.week # maxw
                     /\ r.cum_neg = SumOf(upto, "neg_count")
                     /\ r.cum_total = SumOf(upto, "comment_count")
                     /\ IF r.cum_total = 0
                        THEN r.cum_neg_rate = NaN
                        ELSE /\ r.cum_neg_rate # NaN
                             /\ r.cum_neg_rate # None
                             /\ Rounded4(r.cum_neg_rate.v, r.cum_neg,
                                         r.cum_total)

\* (5, 50) then a gap then (10, 100) before the stub: totals 50, 50, 150 and
\* rates 0.1, 0.1, 0.1, next to a second player first seen in the gap week
C17_Witness ==
    /\ Returned("compute_cumulative_metrics")
    /\ \E a, b, c \in value.ret :
           /\ a.attributed_player = "A" /\ a.week = 7
           /\ a.cum_total = 50 /\ a.cum_neg_rate = Some(1000)
           /\ b.attributed_player = "A" /\ b.week = 14
           /\ b.cum_total = 50 /\ b.cum_neg = 5
           /\ c.attributed_player = "B" /\ c.week = 7
           /\ c.cum_total = 0
    /\ \E r \in args.player_temporal : ToDate(r.week) = 21
    /\ \A r \in value.ret : r.week < 21

\* ------------------------------------------------------------------
\* mask_below_threshold
\* ------------------------------------------------------------------
\* the min_comments values tried: below, at and above the totals met
MinComments == {0, 50, 51, 1000}

\* the mutant of mask_below_threshold: a row at the minimum is masked too
MaskAtThreshold(df, min_comments) ==
    {[r EXCEPT !.cum_neg_rate =
          IF r.cum_total > min_comments THEN @ ELSE None] : r \in df}

mask_below_threshold(df, min_comments) ==
    {[r EXCEPT !.cum_neg_rate =
          IF r.cum_total >= min_comments THEN @ ELSE None] : r \in df}

\* the frames compute_cumulative_metrics hands over for these inputs
CumulativeFrames(temporals) ==
    {compute_cumulative_metrics(pt) : pt \in temporals}

InitMask ==
    /\ InitOrchIdle /\ InitParseIdle /\ InitJoinIdle /\ InitFetchIdle
    /\ InitPipeIdle
    /\ \E df \in CumulativeFrames(PlayerTemporals), mc \in MinComments :
           args = [fn |-> "mask_below_threshold", df |-> df,
                   min_comments |-> mc]
    /\ value = NoDict

CallMask ==
    /\ args.fn = "mask_below_threshold"
    /\ value = NoDict
    /\ value' = [ret |-> mask_below_threshold(args.df, args.min_comments)]
    /\ UNCHANGED <<orchVars, pollVars, saveVars, parseVars, joinVars,
                   fetchVars, pipeVars, args>>

SpecMask == InitMask /\ [][CallMask]_vars

OtherColumns(r) ==
    [c \in DOMAIN r \ {"cum_neg_rate"} |-> r[c]]

\* C18: mask_below_threshold returns the rows it was given, one for one and
\* with every column but cum_neg_rate as it was; cum_neg_rate is null on
\* exactly the rows whose cum_total is below min_comments, and the computed
\* rate on the rows at or above it.
C18_MaskBelowMinimum ==
    Returned("mask_below_threshold") =>
        /\ Cardinality(value.ret) = Cardinality(args.df)
        /\ \A r \in args.df :
               \E o \in value.ret :
                   /\ DOMAIN o = DOMAIN r
                   /\ OtherColumns(o) = OtherColumns(r)
                   /\ r.cum_total < args.min_comments
                          => o.cum_neg_rate = None
                   /\ r.cum_total >= args.min_comments
                          => (o.cum_neg_rate = r.cum_neg_rate
                              /\ o.cum_neg_rate # None)

\* a row exactly at the minimum keeps its rate while a row below it, whose
\* computed rate was 0.3333, is null
C18_Witness ==
    /\ Returned("mask_below_threshold")
    /\ args.min_comments = 50
    /\ \E r \in value.ret : r.cum_total = 50 /\ r.cum_neg_rate = Some(1000)
    /\ \E r \in args.df :
           /\ r.cum_total = 3 /\ r.cum_neg_rate = Some(3333)
           /\ [r EXCEPT !.cum_neg_rate = None] \in value.ret

\* ------------------------------------------------------------------
\* pivot_bar_race_wide
\* ------------------------------------------------------------------
MaxTopN == 2

\* min_ranking_comments and min_entry_comments values tried
MinRanking == {3, 50, 150}
MinEntry == {3, 51}

PlayerMetadata ==
    [p \in {"A"} |-> [team |-> "LAL", headshot_url |-> "a.png"]]

IsoTable == <<"2024-10-07", "2024-10-14", "2024-10-21", "2024-10-28",
              "2024-11-04", "2024-11-11">>

\* pl.col("week").cast(pl.Utf8)
DateStr(d) == IsoTable[d \div 7]

final_week(df) == SetMax(weeks(df))

\* the mutant of Qualified: the ranking threshold is not applied
QualifiedAll(df, min_ranking_comments) ==
    {r \in df : r.week = final_week(df)}

\* df.filter((week == final_week) & (cum_total >= min_ranking_comments))
Qualified(df, min_ranking_comments) ==
    {r \in df : /\ r.week = final_week(df)
                /\ r.cum_total >= min_ranking_comments}

\* the outcomes of .sort("cum_neg_rate", descending=True): the rows in an
\* order of falling rate, rows of equal rate in either order
final_rates(df, min_ranking_comments) ==
    LET rows == Qualified(df, min_ranking_comments)
    IN {q \in [1..Cardinality(rows) -> rows] :
           /\ \A i, j \in DOMAIN q : i # j => q[i] # q[j]
           /\ \A i, j \in DOMAIN q :
                  i < j => q[i].cum_neg_rate.v >= q[j].cum_neg_rate.v}

\* final_rates.head(top_n)["attributed_player"].to_list()
top_players(sorted, top_n) ==
    {sorted[i].attributed_player : i \in 1..Min(top_n, Len(sorted))}

Meta(player_metadata, p, k) ==
    IF p \in DOMAIN player_metadata THEN player_metadata[p][k] ELSE ""

\* the wide frame as the set of its rows; sorted is the outcome of the sort
pivot_bar_race_wide(df, player_metadata, top_n, min_ranking_comments,
                    min_entry_comments, sorted) ==
    LET top == top_players(sorted, top_n)
        kept == mask_below_threshold(
                    {r \in df : r.attributed_player \in top},
                    min_entry_comments)
    IN {[Label |-> p,
         Category |-> Meta(player_metadata, p, "team"),
         Image |-> Meta(player_metadata, p, "headshot_url"),
         cells |-> [w \in {DateStr(r.week) : r \in kept} |->
                       (CHOOSE r \in kept :
                           /\ r.attributed_player = p
                           /\ DateStr(r.week) = w).cum_neg_rate]] :
           p \in players(kept)}

InitPivot ==
    /\ InitOrchIdle /\ InitParseIdle /\ InitJoinIdle /\ InitFetchIdle
    /\ InitPipeIdle
    /\ \E df \in CumulativeFrames(PlayerTemporals) \ {{}},
          n \in 1..MaxTopN, mr \in MinRanking, me \in MinEntry :
           args = [fn |-> "pivot_bar_race_wide", df |-> df,
                   player_metadata |-> PlayerMetadata, top_n |-> n,
                   min_ranking_comments |-> mr, min_entry_comments |-> me]
    /\ value = NoDict

CallPivot ==
    /\ args.fn = "pivot_bar_race_wide"
    /\ value = NoDict
    /\ \E sorted \in final_rates(args.df, args.min_ranking_comments) :
           value' = [ret |-> pivot_bar_race_wide(
                                 args.df, args.player_metadata, args.top_n,
                                 args.min_ranking_comments,
                                 args.min_entry_comments, sorted)]
    /\ UNCHANGED <<orchVars, pollVars, saveVars, parseVars, joinVars,
                   fetchVars, pipeVars, args>>

SpecPivot == InitPivot /\ [][CallPivot]_vars

\* the row of entity p in the final period of the frame handed in
FinalRow(p) ==
    CHOOSE r \in args.df :
        r.attributed_player = p /\ r.week = SetMax(weeks(args.df))

Selected == {r.Label : r \in value.ret}

\* C19: pivot_bar_race_wide returns rows for at most top_n entities; each of
\* them has a final-period cum_total of at least min_ranking_comments, so an
\* entity below that threshold never appears, whatever its rate; and no
\* entity at or above the threshold that was left out has a strictly higher
\* final-period unmasked cum_neg_rate than one that was selected.
C19_TopNAmongEligible ==
    Returned("pivot_bar_race_wide") =>
        LET eligible == {p \in players(args.df) :
                            FinalRow(p).cum_total >= args.min_ranking_comments}
        IN /\ Cardinality(Selected) <= args.top_n
           /\ Cardinality(value.ret) = Cardinality(Selected)
           /\ \A s \in Selected :
                  FinalRow(s).cum_total >= args.min_ranking_comments
           /\ \A p \in players(args.df) \ eligible : p \notin Selected
           /\ \A e \in eligible \ Selected, s \in Selected :
                  ~(FinalRow(e).cum_neg_rate.v > FinalRow(s).cum_neg_rate.v)

\* with top_n 1: a player below the ranking threshold with the higher rate
\* is left out and the eligible one is selected
C19_Witness ==
    /\ Returned("pivot_bar_race_wide")
    /\ args.top_n = 1
    /\ players(args.df) = {"A", "B"}
    /\ Selected = {"A"}
    /\ FinalRow("B").cum_total < args.min_ranking_comments
    /\ FinalRow("B").cum_neg_rate.v > FinalRow("A").cum_neg_rate.v

\* with top_n 1: of two eligible players the one with the lower rate is
\* left out
C19_WitnessLeftOut ==
    /\ Returned("pivot_bar_race_wide")
    /\ args.top_n = 1
    /\ players(args.df) = {"A", "B"}
    /\ Selected = {"B"}
    /\ FinalRow("A").cum_total >= args.min_ranking_comments
    /\ FinalRow("A").cum_neg_rate.v < FinalRow("B").cum_neg_rate.v

\* ------------------------------------------------------------------
\* prepare_batches.process_file (scripts/prepare_batches.py) with
\* format_batch_request (pipeline/batch.py).
\* A line of the input file is given by what json.loads makes of it; a
\* batch file is the sequence of the requests written to it.
\* ------------------------------------------------------------------
MaxInputLines == 4

\* the size of a full batch file, scaled down from 100,000
REQUESTS_PER_BATCH == 2

CommentIds == {"a", "b"}

\* a comment, an empty line, a line json.loads rejects with JSONDecodeError,
\* a line it rejects with ValueError (an integer literal of more than 4300
\* digits), and a JSON object without the 'body' field
InputLines ==
    {[kind |-> "comment", id |-> i, body |-> "hi"] : i \in CommentIds}
    \cup {[kind |-> "blank"], [kind |-> "garbage"], [kind |-> "longint"],
          [kind |-> "no_body", id |-> "a"]}

\* limit: None, or an integer (0 counts as None in `if limit`)
Limits == {None, Some(0), Some(1), Some(3)}

DigitStr == <<"0", "1", "2", "3", "4", "5", "6", "7", "8", "9">>

\* f"batch_{batch_num:03d}.jsonl", for batch_num below 1000
BatchFile(batch_num) ==
    "batch_" \o DigitStr[(batch_num \div 100) + 1]
             \o DigitStr[((batch_num \div 10) % 10) + 1]
             \o DigitStr[(batch_num % 10) + 1] \o ".jsonl"

\* what the output directory may hold beforehand: nothing, or a file of an
\* earlier run
EmptyDir == [n \in {} |-> <<>>]
OutputDirs == {EmptyDir, [n \in {BatchFile(2)} |-> <<"earlier">>]}

MODEL == "claude-haiku-4-5-20251001"
MAX_TOKENS == 75
\* 0.0
TEMPERATURE == 0

\* the prompt text around the comment body
build_prompt(comment_body) == <<"prompt", comment_body, "respond">>

format_batch_request(comment) ==
    [custom_id |-> comment.id,
     params |-> [model |-> MODEL, max_tokens |-> MAX_TOKENS,
                 temperature |-> TEMPERATURE,
                 messages |-> <<[role |-> "user",
                                 content |-> build_prompt(comment.body)]>>]]

\* open(batch_path, "w") and one line per request
write_batch(dir, batch_num, reqs) ==
    [n \in DOMAIN dir \cup {BatchFile(batch_num)} |->
        IF n = BatchFile(batch_num) THEN reqs ELSE dir[n]]

Truthy(limit) == limit # None /\ limit.v # 0

BatchIsFull(current_batch) == Len(current_batch) >= REQUESTS_PER_BATCH

\* the loop over the lines, from line i on; st holds stats, batch_num,
\* current_batch, the directory and the exception that left the loop: only
\* JSONDecodeError is caught, and format_batch_request is called outside the
\* try
RECURSIVE ReadLines(_, _, _, _)
ReadLines(lines, limit, i, st) ==
    IF i > Len(lines) THEN st
    ELSE IF Truthy(limit) /\ st.stats.total >= limit.v THEN st
    ELSE LET line == lines[i]
         IN IF line.kind = "blank"
            THEN ReadLines(lines, limit, i + 1, st)
            ELSE IF line.kind = "garbage"
            THEN ReadLines(lines, limit, i + 1,
                     [st EXCEPT !.stats.malformed = @ + 1])
            ELSE IF line.kind = "longint"
            THEN [st EXCEPT !.raised = "ValueError"]
            ELSE IF line.kind = "no_body"
            THEN [st EXCEPT !.raised = "KeyError"]
            ELSE LET batch == Append(st.current_batch,
                                     format_batch_request(line))
                     counted == [st EXCEPT !.stats.total = @ + 1]
                 IN IF BatchIsFull(batch)
                    THEN ReadLines(lines, limit, i + 1,
                             [counted EXCEPT
                                 !.batch_num = @ + 1,
                                 !.dir = write_batch(@, st.batch_num + 1,
                                                     batch),
                                 !.stats.batches = @ + 1,
                                 !.current_batch = <<>>])
                    ELSE ReadLines(lines, limit, i + 1,
                             [counted EXCEPT !.current_batch = batch])

\* the stats returned and the directory left behind, or the exception, which
\* leaves the requests of current_batch unwritten
process_file(lines, output_dir, limit) ==
    LET st == ReadLines(lines, limit, 1,
                  [stats |-> [total |-> 0, batches |-> 0, malformed |-> 0],
                   batch_num |-> 0, current_batch |-> <<>>,
                   dir |-> output_dir, raised |-> NoException])
    IN IF st.raised # NoException
       THEN [raised |-> TRUE, exc |-> st.raised, output_dir |-> st.dir]
       ELSE IF st.current_batch # <<>>
       THEN [raised |-> FALSE,
             ret |-> [st.stats EXCEPT !.batches = @ + 1],
             output_dir |-> write_batch(st.dir, st.batch_num + 1,
                                        st.current_batch)]
       ELSE [raised |-> FALSE, ret |-> st.stats, output_dir |-> st.dir]

InitPrepare ==
    /\ InitOrchIdle /\ InitParseIdle /\ InitJoinIdle /\ InitFetchIdle
    /\ InitPipeIdle
    /\ \E lines \in SeqsUpTo(InputLines, MaxInputLines),
          dir \in OutputDirs, limit \in Limits :
           args = [fn |-> "process_file", lines |-> lines,
                   output_dir |-> dir, limit |-> limit]
    /\ value = NoDict

CallPrepare ==
    /\ args.fn = "process_file"
    /\ value = NoDict
    /\ value' = process_file(args.lines, args.output_dir, args.limit)
    /\ UNCHANGED <<orchVars, pollVars, saveVars, parseVars, joinVars,
                   fetchVars, pipeVars, args>>

SpecPrepare == InitPrepare /\ [][CallPrepare]_vars

\* the well-formed lines, in input order
WellFormedLines == SelectSeq(args.lines, LAMBDA l : l.kind = "comment")

\* request r is the Classification Request of record line l
RequestOf(r, l) ==
    /\ r.custom_id = l.id
    /\ Len(r.params.messages) = 1
    /\ r.params.messages[1].role = "user"
    /\ r.params.messages[1].content[2] = l.body

\* the lines json.loads rejects
Unparseable ==
    {i \in 1..Len(args.lines) : args.lines[i].kind \in {"garbage", "longint"}}

\* C20: process_file returns and has written exactly one Classification
\* Request per well-formed input line, keyed by the record's id and in input
\* order, into batch_001, batch_002, ... numbered consecutively from 1: every
\* file holds at most REQUESTS_PER_BATCH requests, every file but the last
\* exactly that many, none is empty, and every unparseable line is counted as
\* malformed and skipped without stopping the run.
C20_OneRequestPerLine ==
    Returned("process_file") =>
        LET exp == WellFormedLines
            k == (Len(exp) + REQUESTS_PER_BATCH - 1) \div REQUESTS_PER_BATCH
            dir == value.output_dir
        IN /\ ~value.raised
           /\ value.ret.total = Len(exp)
           /\ value.ret.batches = k
           /\ value.ret.malformed = Cardinality(Unparseable)
           /\ DOMAIN dir = DOMAIN args.output_dir
                               \cup {BatchFile(n) : n \in 1..k}
           /\ \A n \in DOMAIN args.output_dir \ {BatchFile(j) : j \in 1..k} :
                  dir[n] = args.output_dir[n]
           /\ \A n \in 1..k :
                  LET file == dir[BatchFile(n)]
                      from == (n - 1) * REQUESTS_PER_BATCH
                  IN /\ Len(file) >= 1
                     /\ Len(file) <= REQUESTS_PER_BATCH
                     /\ n < k => Len(file) = REQUESTS_PER_BATCH
                     /\ from + Len(file) <= Len(exp)
                     /\ \A j \in 1..Len(file) : RequestOf(file[j], exp[from + j])
           /\ k > 0 => (k - 1) * REQUESTS_PER_BATCH
                           + Len(dir[BatchFile(k)]) = Len(exp)

\* ------------------------------------------------------------------
\* Submission and collection runs in any order (submit_batches.py and
\* collect_results.py against one state file and one service).
\* ------------------------------------------------------------------
\* every run of collect_results makes one pass (--no-wait); the polling loop
\* is checked under SpecCollect, the runs that end inside save_state and
\* leave a temporary file under SpecSubmit and SpecSave
NextLifecycle ==
    \/ StartSubmit(FALSE, 0)
    \/ \E m \in 1..MaxFiles : StartSubmit(TRUE, m)
    \/ SubmitCall
    \/ SubmitFail
    \/ AppendEntry
    \/ SaveEntry
    \/ NextFile
    \/ Interrupt
    \/ HandlerSave
    \/ Kill
    \/ StartCollect(TRUE, 1, 0)
    \/ PollOne
    \/ \E exc \in ServiceErrors : PollOneFail(exc)
    \/ PollDone(0)
    \/ DownloadOne
    \/ SaveFlag
    \/ KillInDownload
    \/ \E exc \in ServiceErrors : DownloadOneFail(exc)
    \/ DownloadDone
    \/ Finish
    \/ WriteFailed
    \/ SaveFinal
    \/ \E exc \in WriteExceptions : BuildFail(exc)
    \/ Exit
    \/ \E j \in 1..Len(svcJobs) : SvcEnd(j)

SpecLifecycle == InitSubmit /\ [][NextLifecycle]_vars

\* the job entries of the state file
Durable == Get(load_state(fs[StatePath]), "batches", <<>>)

\* results_downloaded is set on ended entries only
DownloadedOnlyIfEnded(bs) ==
    \A i \in 1..Len(bs) : bs[i].results_downloaded => bs[i].status = "ended"

\* every entry of old is in new, for the same job, and no further back
Forward(old, new) ==
    /\ Len(old) <= Len(new)
    /\ \A i \in 1..Len(old) :
           /\ new[i].batch_id = old[i].batch_id
           /\ old[i].status = "ended" => new[i].status = "ended"
           /\ old[i].results_downloaded => new[i].results_downloaded

C21_Shape ==
    /\ DownloadedOnlyIfEnded(Durable)
    /\ DownloadedOnlyIfEnded(state.batches)

\* C21: across submission and collection runs in any order, killed or not,
\* a job entry only moves forward: in the state file, and in the memory of a
\* running process, an entry that is ended stays ended, one with
\* results_downloaded true keeps it, and results_downloaded is true only on
\* ended entries.
C21_EntriesOnlyMoveForward ==
    /\ []C21_Shape
    /\ [][/\ fs'[StatePath] # fs[StatePath] => Forward(Durable, Durable')
          /\ (pc # "idle" /\ pc' # "idle" /\ state' # state)
                 => Forward(state.batches, state'.batches)]_vars

\* a later submission run has appended a job to a state file that holds a
\* downloaded one
C21_Witness ==
    /\ Len(Durable) = 2
    /\ Durable[1].status = "ended" /\ Durable[1].results_downloaded
    /\ Durable[2].status = "in_progress"
    /\ runs >= 2

\* the entries of the running process's state dict that the state file does
\* not hold as they are: appended, or changed, since the last save_state
Unsaved ==
    {i \in 1..Len(state.batches) :
        i > Len(Durable) \/ state.batches[i] # Durable[i]}

\* C22: at every point where a submission or collection process can be
\* interrupted, the state file is behind the process's state dict by at most
\* one job transition, and holds nothing the state dict has not.
C22_AtMostOneTransitionUnsaved ==
    pc # "idle" =>
        /\ Cardinality(Unsaved) <= 1
        /\ Forward(Durable, state.batches)

\* C23: when save_state fails at any step of the write, the error is raised
\* to the caller, the previously committed state file is unchanged and no
\* temporary file is left behind in the state directory.
C23_FailedSaveLeavesNoTempFile ==
    pc = "raised" =>
        /\ fs[StatePath] = committed
        /\ \A p \in TempPaths : ~fs[p].exists

\* C24 as stated: a transport failure from the classification service during
\* submission or during status polling is surfaced and stops that invocation:
\* no further service call is made in that run, and the persisted state holds
\* exactly the transitions completed before the failure.
C24_TransportFailureStopsTheRun ==
    [][/\ SubmitFail =>
              /\ pc' = "idle"
              /\ svcJobs' = svcJobs
              /\ Durable' = state.batches
       /\ \A exc \in ServiceErrors :
              PollOneFail(exc) =>
                  /\ pc' \in {"idle", "raised"}
                  /\ Durable' = state.batches]_vars

\* C24, amended: a transport failure during submission is surfaced and stops
\* that invocation, no further service call is made in that run and the
\* persisted state holds exactly the transitions completed before the
\* failure; a transport failure during the status poll of one job is logged
\* and skipped: the job's entry stays as it was, the pass goes on with the
\* remaining pending jobs, and the state saved at the end of the pass holds
\* exactly the transitions of the polls that succeeded.
C24_SubmitFailureStopsPollFailureSkips ==
    [][/\ SubmitFail =>
              /\ pc' = "idle"
              /\ svcJobs' = svcJobs
              /\ Durable' = state.batches
       /\ \A exc \in ServiceErrors :
              PollOneFail(exc) =>
                  /\ pc' = "poll"
                  /\ todo' = Tail(todo)
                  /\ state' = state
                  /\ fs' = fs
       /\ (pc = "poll" /\ pc' = "download") => Durable' = state.batches]_vars

\* the poll of job 1 was made and changed nothing although the service has
\* ended the job, and the pass is about to poll job 2; one submission run
\* has ended early with its first job persisted
C24_Witness ==
    /\ pc = "poll"
    /\ lastCall.kind = "status"
    /\ lastCall.batch_id = 1
    /\ svcJobs[1].status = "ended"
    /\ state.batches[1].status = "in_progress"
    /\ todo = <<2>>
    /\ ~clean

\* the creation timestamps of the records yielded so far, in yield order
YieldedTimes == [i \in 1..Len(yielded) |-> yielded[i].created_utc]

\* C25 as stated: within one archive fetch every yielded record's creation
\* timestamp is greater than that of the record yielded before it.
C25_StrictlyIncreasing ==
    \A i \in 2..Len(yielded) : YieldedTimes[i] > YieldedTimes[i - 1]

\* C25, amended: within one archive fetch records are yielded in
\* non-decreasing creation-timestamp order (no yielded record is older than
\* the one before it), and the first record of a page is strictly newer than
\* the last record of the page before it.
C25_NeverDecreasing ==
    /\ \A i \in 2..Len(yielded) : YieldedTimes[i] >= YieldedTimes[i - 1]
    /\ \A k \in 2..Len(requests) :
           (requests[k].ok /\ requests[k].items # <<>>) =>
               LET prev == requests[k - 1].items
               IN requests[k].items[1].created_utc >
                      prev[Len(prev)].created_utc

\* two records of one second in one page, then a page of a later second
C25_Witness ==
    /\ fetchPc = "done"
    /\ YieldedTimes = <<1, 1, 2>>
    /\ Len(requests[1].items) = 2
    /\ Len(requests[2].items) = 1

\* the timestamps of the last records of the pages received
PageBoundaries ==
    {requests[k].items[Len(requests[k].items)].created_utc :
         k \in {j \in 1..Len(requests) :
                    requests[j].ok /\ requests[j].items # <<>>}}

\* how often the record at position i of the archive was yielded
TimesYielded(i) == Cardinality({j \in 1..Len(yielded) : yielded[j].id = i})

\* C26: with after and before treated as exclusive bounds, the only records
\* of the requested range that a complete fetch fails to yield are records
\* whose creation timestamp equals the timestamp of the last record of some
\* page; every other record in the range is yielded exactly once.
C26_OnlyBoundaryTiesAreMissed ==
    (fetchPc = "done" /\ ~inclusive) =>
        \A i \in 1..Len(archive) :
            (after < archive[i] /\ archive[i] < before) =>
                \/ TimesYielded(i) = 1
                \/ TimesYielded(i) = 0 /\ archive[i] \in PageBoundaries

\* the last request of the fetch was answered with a non-empty page, its
\* records were all taken, and the generator has gone on to the next request
AfterNonEmptyPage ==
    /\ requests # <<>>
    /\ requests[Len(requests)].ok
    /\ requests[Len(requests)].items # <<>>
    /\ fetchPc \in {"loop", "done"}

\* the response reports X-RateLimit-Remaining below rate_limit_buffer
RemainingLow ==
    /\ REMAINING \in DOMAIN headers
    /\ int(headers[REMAINING]) < RateLimitBuffer

ResetGiven == RESET \in DOMAIN headers /\ headers[RESET] # <<>>

\* C27: after a page whose response reports X-RateLimit-Remaining below
\* rate_limit_buffer the client sleeps max(0, reset - now) + 1 seconds (60
\* seconds when no reset time is given) before the next request; when
\* remaining is at or above the buffer, or the header is absent, it takes
\* no rate-limit sleep; independently it sleeps the fixed delay after every
\* non-empty page whenever delay > 0. (The sleeps are those between a page
\* and the next request: a header value that int() rejects ends the fetch
\* with ValueError, and no request follows.)
C27_RateLimitAndDelaySleeps ==
    AfterNonEmptyPage =>
        LET reset == int(headers[RESET])
            until == IF reset - now >= 0 THEN reset - now ELSE 0
            rate == IF ~RemainingLow THEN <<>>
                    ELSE IF ResetGiven THEN <<until + 1>> ELSE <<60>>
            fixed == IF delay > 0 THEN <<delay>> ELSE <<>>
        IN slept = rate \o fixed

\* the reset time has passed (reset 5, now 7): one second of rate-limit
\* sleep, then the fixed delay
C27_Witness ==
    /\ AfterNonEmptyPage
    /\ RemainingLow
    /\ ResetGiven
    /\ now = 7
    /\ delay = 1
    /\ slept = <<1, 1>>

\* remaining equals the buffer: only the fixed delay is slept
C27_WitnessAtBuffer ==
    /\ AfterNonEmptyPage
    /\ REMAINING \in DOMAIN headers
    /\ int(headers[REMAINING]) = RateLimitBuffer
    /\ delay = 1
    /\ slept = <<1>>

AllEndedAndDownloaded(bs) ==
    \A i \in 1..Len(bs) : bs[i].status = "ended" /\ bs[i].results_downloaded

\* the output exists only over a state file in which every job is done
C28_Shape == fs[OutputPath].exists => AllEndedAndDownloaded(Durable)

\* C28: collect_results builds and writes the final joined dataset only when
\* every job in the pipeline state has status ended and results_downloaded
\* true; if any job is pending or undownloaded after polling (also after a
\* timeout or a failed download) it exits without writing or overwriting the
\* output.
C28_OutputOnlyWhenAllDownloaded ==
    /\ []C28_Shape
    /\ [][/\ fs'[OutputPath] # fs[OutputPath] =>
                 /\ pc \in {"returned", "finish"}
                 /\ AllEndedAndDownloaded(state.batches)
                 /\ fs'[OutputPath] =
                        OutputFile(BuildFrame(GlobResults(fs), FilteredIds(fs))
                                       .result.value.joined_df)
          /\ (pc \in {"returned", "finish"} /\ pc' = "idle"
                  /\ ~AllEndedAndDownloaded(state.batches)) => fs' = fs]_vars

\* the dataset of two jobs has been written: a row for the request the
\* service answered, the other request in the failures file, the totals in
\* the state file
C28_Witness ==
    /\ pc = "idle"
    /\ fs[OutputPath].exists
    /\ Len(Durable) = 2
    /\ Len(fs[OutputPath].content) = 1
    /\ fs[OutputPath].content[1].comment_id = 1
    /\ fs[FailedPath].exists
    /\ load_state(fs[StatePath]).total_input_tokens = 2

\* a run is over with every job ended and a download failed: nothing written
C28_WitnessFailedDownload ==
    /\ pc = "returned"
    /\ ret
    /\ failed # {}
    /\ ~fs[OutputPath].exists

\* a run has timed out with a job pending: nothing written
C28_WitnessTimeout ==
    /\ pc = "returned"
    /\ ~ret
    /\ clock >= 1
    /\ ~fs[OutputPath].exists

RECURSIVE SumCounters(_, _)
SumCounters(st, keys) ==
    IF keys = {} THEN 0
    ELSE LET k == CHOOSE x \in keys : TRUE
         IN st[k] + SumCounters(st, keys \ {k})

RejectedCounters == DOMAIN stats \ {"total", "accepted"}

\* total = accepted + the rejections, every registered stage has a counter,
\* and a snapshot taken earlier reads as it did when it was taken
C29_Counters ==
    /\ stats["total"] = stats["accepted"] + SumCounters(stats, RejectedCounters)
    /\ \A i \in 1..Len(steps) : ("rejected_" \o steps[i].name) \in DOMAIN stats
    /\ value # NoDict => Deref(value.ret) = value.taken

\* C29: after any sequence of add_step, process and reset_stats calls, total
\* equals accepted plus the sum of all rejected_<stage> counters and every
\* registered stage has a rejection counter; reset_stats sets every counter
\* to zero while keeping the registered stages and the counter key set; and
\* a stats snapshot taken earlier is not changed by later calls.
C29_StatsStayConsistent ==
    /\ []C29_Counters
    /\ [][stats'["total"] < stats["total"] =>
              /\ \A k \in DOMAIN stats' : stats'[k] = 0
              /\ DOMAIN stats' = DOMAIN stats
              /\ steps' = steps]_vars

\* a snapshot with a rejection and an acceptance was taken, then the stats
\* were reset: the pipeline's counters are zero and the stages are kept
C29_Witness ==
    /\ value # NoDict
    /\ value.taken["total"] = 2
    /\ value.taken["accepted"] = 1
    /\ "rejected_small" \in DOMAIN value.taken
    /\ value.taken["rejected_small"] = 1
    /\ stats["total"] = 0
    /\ Len(steps) = 2
    /\ DOMAIN stats = DOMAIN value.taken

\* the entities a record mentions: its mentioned names, normalised through
\* the alias map as resolve_player normalises a single mention
MentionedEntities(mentioned_players, alias_map) ==
    {Get(alias_map, Lower(mentioned_players[i]), mentioned_players[i]) :
         i \in 1..Len(mentioned_players)}

\* C30: for a record with two or more mentioned entities, any non-null entity
\* returned by resolve_player is one of the entities mentioned in that
\* record: the disambiguation field only picks among the mentioned entities.
C30_ReturnsAMentionedEntity ==
    (/\ Returned("resolve_player")
     /\ args.mentioned_players # None
     /\ Len(args.mentioned_players.v) >= 2
     /\ value.ret # None) =>
        value.ret.v \in MentionedEntities(args.mentioned_players.v,
                                          build_alias_to_player_map)
====
